---- MODULE Spec2Model ----
(***************************************************************************)
(* RIS ingestion and duplicate detection (src/App_/app.py,                 *)
(* src/utils/parser.py, src/utils/data_base.py, src/main.py).              *)
(*                                                                         *)
(* Text is a sequence of one-character strings, so that the two            *)
(* normalisations the code uses (Python str.strip().lower() on the         *)
(* incoming field, SQLite LOWER(TRIM(..)) on the stored column) are        *)
(* computed character by character.  "E^" stands for the non-ASCII capital *)
(* letter U+00C9 and "e^" for its lower-case form U+00E9.                  *)
(***************************************************************************)
EXTENDS Integers, Sequences, FiniteSets, Bags, TLC

VARIABLES db, tx, pc, source_name, records, parts, stored_count, result,
          error, db0, content, tag_mapping, decisions, calls, extracted,
          screening, notice

vars == <<db, tx, pc, source_name, records, parts, stored_count, result,
          error, db0, content, tag_mapping, decisions, calls,
          extracted, screening, notice>>

(* ------------------------------ bounds --------------------------------- *)

MaxBatch == 3

MaxArticles == 4

NumSessions == 2

MaxCalls == 3

MaxLines == 3

Sessions == 1..NumSessions

(* ------------------------- absent values ------------------------------- *)

\* Python None / SQL NULL for a text value (a sequence of characters).
None == <<"<None>">>

\* Python None / SQL NULL for a name held as a plain string.
NoneStr == "<None>"

\* Python None / SQL NULL for an integer (year, foreign key).
NoneInt == -1

(* ----------------------- text normalisation ---------------------------- *)

\* str.strip() with no argument removes every kind of white space.
PyWhitespace == {" ", "\t"}

\* SQLite TRIM(X) removes spaces only.
SqlTrimChars == {" "}

RECURSIVE StripLeft(_, _)
StripLeft(s, ws) ==
    IF s = <<>> THEN <<>>
    ELSE IF Head(s) \in ws THEN StripLeft(Tail(s), ws) ELSE s

RECURSIVE StripRight(_, _)
StripRight(s, ws) ==
    IF s = <<>> THEN <<>>
    ELSE IF s[Len(s)] \in ws THEN StripRight(SubSeq(s, 1, Len(s) - 1), ws)
         ELSE s

PyStrip(s) == StripRight(StripLeft(s, PyWhitespace), PyWhitespace)

SqlTrim(s) == StripRight(StripLeft(s, SqlTrimChars), SqlTrimChars)

\* str.lower() follows Unicode case mapping.
PyLowerChar(c) ==
    CASE c = "A" -> "a"
      [] c = "B" -> "b"
      [] c = "E^" -> "e^"
      [] OTHER -> c

\* SQLite's built-in LOWER() folds the 26 ASCII letters only.
SqlLowerChar(c) ==
    CASE c = "A" -> "a"
      [] c = "B" -> "b"
      [] OTHER -> c

PyLower(s) == [i \in 1..Len(s) |-> PyLowerChar(s[i])]

SqlLower(s) == [i \in 1..Len(s) |-> SqlLowerChar(s[i])]

\* record.get('title', '').strip().lower()
PyNormTitle(record) == PyLower(PyStrip(record.title))

\* record.get('abstract', '').strip().lower() if record.get('abstract') else ''
PyNormAbstract(record) ==
    IF record.abstract = None \/ record.abstract = <<>> THEN <<>>
    ELSE PyLower(PyStrip(record.abstract))

\* LOWER(TRIM(col)); NULL stays NULL.
SqlNorm(col) == IF col = None THEN None ELSE SqlLower(SqlTrim(col))

\* col = ? in a WHERE clause: a comparison with NULL is never true.
SqlEq(x, y) == x # None /\ y # None /\ x = y

(* ------------------------------ store ---------------------------------- *)

\* The schema of create_database, no row in any table.
EmptyDb ==
    [articles |-> {}, sources |-> {}, journals |-> {}, authors |-> {},
     keywords |-> {}, article_author |-> {}, article_keyword |-> {}]

SetMax(S) == CHOOSE m \in S : \A x \in S : x <= m

\* INTEGER PRIMARY KEY without AUTOINCREMENT: one more than the largest rowid.
NextId(rows) == IF rows = {} THEN 1 ELSE SetMax({r.id : r \in rows}) + 1

\* A dimension function that inserts without looking the name up.
GetOrCreateAlwaysInserts(table, name) ==
    IF name = NoneStr \/ name = "" THEN [table |-> table, id |-> NoneInt]
    ELSE [table |-> table \cup {[id |-> NextId(table), name |-> name]},
          id |-> NextId(table)]

\* get_or_create_source/journal/author/keyword on one dimension table:
\* the table after the call and the id returned.
GetOrCreate(table, name) ==
    IF name = NoneStr \/ name = "" THEN [table |-> table, id |-> NoneInt]
    ELSE IF \E r \in table : r.name = name
         THEN [table |-> table,
               id |-> (CHOOSE r \in table : r.name = name).id]
         ELSE [table |-> table \cup {[id |-> NextId(table), name |-> name]},
               id |-> NextId(table)]

\* The loop over record['authors'] (or record['keywords']): skip empty names,
\* look the name up or create it, INSERT OR IGNORE the link row.
\* st = [table, links]; "names" is the part of the list still to do.
RECURSIVE LinkAll(_, _, _)
LinkAll(st, article_id, names) ==
    IF names = <<>> THEN st
    ELSE IF Head(names) = "" THEN LinkAll(st, article_id, Tail(names))
    ELSE LET g == GetOrCreate(st.table, Head(names))
         IN  LinkAll([table |-> g.table,
                      links |-> st.links \cup {<<article_id, g.id>>}],
                     article_id, Tail(names))

\* An insert that reuses the largest id and replaces the row that has it.
InsertArticleReplaces(d, record, src) ==
    LET source_id == (CHOOSE r \in d.sources : r.name = src).id
        journal_id == IF record.journal = NoneStr \/ record.journal = ""
                      THEN NoneInt
                      ELSE (CHOOSE r \in d.journals : r.name = record.journal).id
        id == IF d.articles = {} THEN 1 ELSE SetMax({r.id : r \in d.articles})
    IN  [d EXCEPT !.articles = {r \in @ : r.id # id} \cup
            {[id |-> id, title |-> record.title,
              journal_id |-> journal_id, source_id |-> source_id,
              year |-> record.year, abstract |-> record.abstract]}]

\* The INSERT INTO articles of store_record_in_database; d already holds the
\* source and journal rows.
InsertArticle(d, record, src) ==
    LET source_id == (CHOOSE r \in d.sources : r.name = src).id
        journal_id == IF record.journal = NoneStr \/ record.journal = ""
                      THEN NoneInt
                      ELSE (CHOOSE r \in d.journals : r.name = record.journal).id
    IN  [d EXCEPT !.articles = @ \cup
            {[id |-> NextId(d.articles), title |-> record.title,
              journal_id |-> journal_id, source_id |-> source_id,
              year |-> record.year, abstract |-> record.abstract]}]

\* store_record_in_database cut after its first k groups of statements:
\* 1 source, 2 journal, 3 article, 4 authors, 5 keywords (5 = the whole call).
StorePrefix(d, record, src, k) ==
    LET d1 == IF k >= 1
              THEN [d EXCEPT !.sources = GetOrCreate(d.sources, src).table]
              ELSE d
        d2 == IF k >= 2
              THEN [d1 EXCEPT !.journals =
                                 GetOrCreate(d1.journals, record.journal).table]
              ELSE d1
        article_id == NextId(d2.articles)
        d3 == IF k >= 3 THEN InsertArticle(d2, record, src) ELSE d2
        au == LinkAll([table |-> d3.authors, links |-> d3.article_author],
                      article_id, record.authors)
        d4 == IF k >= 4
              THEN [d3 EXCEPT !.authors = au.table, !.article_author = au.links]
              ELSE d3
        kw == LinkAll([table |-> d4.keywords, links |-> d4.article_keyword],
                      article_id, record.keywords)
    IN  IF k >= 5
        THEN [d4 EXCEPT !.keywords = kw.table, !.article_keyword = kw.links]
        ELSE d4

StoreGroups == 5

store_record_in_database(d, record, src) ==
    StorePrefix(d, record, src, StoreGroups)

(* ------------------------ duplicate detection -------------------------- *)

\* One row of the SELECT ... FROM articles a LEFT JOIN sources s.
MatchRow(d, a) ==
    [title |-> a.title,
     source |-> IF \E r \in d.sources : r.id = a.source_id
                THEN (CHOOSE r \in d.sources : r.id = a.source_id).name
                ELSE NoneStr,
     year |-> a.year, id |-> a.id, abstract |-> a.abstract]

\* WHERE LOWER(TRIM(a.title)) = ?
TitleDuplicates(d, record) ==
    {MatchRow(d, a) : a \in
        {a \in d.articles : SqlEq(SqlNorm(a.title), PyNormTitle(record))}}

\* AbstractDuplicates without the "if abstract:" test and without the
\* IS NOT NULL condition.
AbstractDuplicatesUnguarded(d, record) ==
    {MatchRow(d, a) : a \in
        {a \in d.articles : SqlNorm(a.abstract) = PyNormAbstract(record)}}

\* if abstract: ... WHERE LOWER(TRIM(a.abstract)) = ? AND a.abstract IS NOT NULL
AbstractDuplicates(d, record) ==
    IF PyNormAbstract(record) = <<>> THEN {}
    ELSE {MatchRow(d, a) : a \in
            {a \in d.articles :
                /\ SqlEq(SqlNorm(a.abstract), PyNormAbstract(record))
                /\ a.abstract # None}}

DuplicateInfo(d, record, src) ==
    LET td == TitleDuplicates(d, record)
        ad == AbstractDuplicates(d, record)
    IN  [new_record |-> record, source_name |-> src,
         title_duplicates |-> td, abstract_duplicates |-> ad,
         duplicate_type |->
            (IF td # {} THEN <<"title">> ELSE <<>>) \o
            (IF ad # {} THEN <<"abstract">> ELSE <<>>)]

\* HasBoth as "any title match and any abstract match", without the
\* intersection of the row ids.
HasBothAnyRows(info) ==
    info.title_duplicates # {} /\ info.abstract_duplicates # {}

\* has_both_title_and_abstract_match
HasBoth(info) ==
    /\ info.title_duplicates # {}
    /\ info.abstract_duplicates # {}
    /\ {r.id : r \in info.title_duplicates}
         \cap {r.id : r \in info.abstract_duplicates} # {}

\* ClassifyOne testing the title matches only: "if title_duplicates:".
ClassifyOneTitleOnly(acc, d, record, src) ==
    LET info == DuplicateInfo(d, record, src)
    IN  IF info.title_duplicates # {}
        THEN IF HasBoth(info)
             THEN [acc EXCEPT !.full = Append(@, info)]
             ELSE [acc EXCEPT !.partial = Append(@, info)]
        ELSE [acc EXCEPT !.unique = Append(@, record)]

\* ClassifyOne with two separate "if"s: a full duplicate is also appended to
\* the partial duplicates.
ClassifyOneFallsThrough(acc, d, record, src) ==
    LET info == DuplicateInfo(d, record, src)
    IN  IF info.title_duplicates # {} \/ info.abstract_duplicates # {}
        THEN IF HasBoth(info)
             THEN [acc EXCEPT !.full = Append(@, info),
                              !.partial = Append(@, info)]
             ELSE [acc EXCEPT !.partial = Append(@, info)]
        ELSE [acc EXCEPT !.unique = Append(@, record)]

\* The body of the for loop of check_duplicates for one record.
ClassifyOne(acc, d, record, src) ==
    LET info == DuplicateInfo(d, record, src)
    IN  IF info.title_duplicates # {} \/ info.abstract_duplicates # {}
        THEN IF HasBoth(info)
             THEN [acc EXCEPT !.full = Append(@, info)]
             ELSE [acc EXCEPT !.partial = Append(@, info)]
        ELSE [acc EXCEPT !.unique = Append(@, record)]

\* CheckLoop in which a record found unique is written at once, so that the
\* following records of the batch are compared with it too.
RECURSIVE CheckLoopSeesBatch(_, _, _, _)
CheckLoopSeesBatch(acc, d, new_records, src) ==
    IF new_records = <<>> THEN acc
    ELSE LET acc1 == ClassifyOne(acc, d, Head(new_records), src)
             d1 == IF Len(acc1.unique) > Len(acc.unique)
                   THEN store_record_in_database(d, Head(new_records), src)
                   ELSE d
         IN  CheckLoopSeesBatch(acc1, d1, Tail(new_records), src)

RECURSIVE CheckLoop(_, _, _, _)
CheckLoop(acc, d, new_records, src) ==
    IF new_records = <<>> THEN acc
    ELSE CheckLoop(ClassifyOne(acc, d, Head(new_records), src), d,
                   Tail(new_records), src)

NoParts == [unique |-> <<>>, full |-> <<>>, partial |-> <<>>]

\* (unique_records, full_duplicates, partial_duplicates)
check_duplicates(d, new_records, src) == CheckLoop(NoParts, d, new_records, src)

\* check_duplicates that swallows a failed lookup and counts the record unique.
QueryErrorSwallowed(acc, record) ==
    [raised |-> FALSE, parts |-> [acc EXCEPT !.unique = Append(@, record)]]

\* cursor.execute raises inside the loop of check_duplicates: the function has
\* no except clause, the exception leaves it and its three lists are lost.
QueryError(acc, record) == [raised |-> TRUE, parts |-> NoParts]

\* check_duplicates when a lookup for the i-th record raises.
CheckFailing(d, new_records, src, i) ==
    LET before == CheckLoop(NoParts, d, SubSeq(new_records, 1, i - 1), src)
        q == QueryError(before, new_records[i])
    IN  IF q.raised THEN q
        ELSE [raised |-> FALSE,
              parts |-> CheckLoop(q.parts, d,
                           SubSeq(new_records, i + 1, Len(new_records)), src)]

RECURSIVE StoreAll(_, _, _)
StoreAll(d, recs, src) ==
    IF recs = <<>> THEN d
    ELSE StoreAll(store_record_in_database(d, Head(recs), src), Tail(recs), src)

\* check_duplicates that inserts and commits the records it finds unique.
StoreAfterCheckWrites(d, new_records, src) ==
    StoreAll(d, check_duplicates(d, new_records, src).unique, src)

\* The store after check_duplicates: its connection runs SELECTs only and is
\* closed without a commit.
StoreAfterCheck(d, new_records, src) == d

(* ------------------------------ inputs --------------------------------- *)

Rec(t, a, j, y, au, kw) ==
    [title |-> t, abstract |-> a, journal |-> j, year |-> y,
     authors |-> au, keywords |-> kw]

\* Records parse_ris_content can return: the title is never empty and has no
\* white space around it; an abstract is absent, or the pieces of the abstract
\* tag joined by spaces (so it may be empty or start with a space).
RecordPool ==
    { Rec(<<"a">>, <<"a", "b">>, "J", 2020, <<"Smith", "Doe">>, <<"ai">>),
      Rec(<<"A">>, None, NoneStr, NoneInt, <<>>, <<>>),
      Rec(<<"b">>, <<"A", "B">>, "J", NoneInt, <<"Smith">>, <<>>),
      Rec(<<"b">>, <<" ", "a", "b">>, NoneStr, 2020, <<>>, <<"ai", "">>),
      Rec(<<"E^">>, <<>>, NoneStr, NoneInt, <<>>, <<>>),
      Rec(<<"e^">>, <<"b">>, NoneStr, NoneInt, <<>>, <<>>) }

\* source_name.strip() of the text input; the button is disabled when empty.
SourceNames == {"Scopus"}

RECURSIVE SeqsUpTo(_, _)
SeqsUpTo(S, n) ==
    IF n = 0 THEN {<<>>}
    ELSE LET shorter == SeqsUpTo(S, n - 1)
         IN  shorter \cup {Append(q, x) : q \in shorter, x \in S}

Batches == SeqsUpTo(RecordPool, MaxBatch)

(* ------------------------------ parser --------------------------------- *)

\* A line is a sequence of characters; a tag code is the two characters that
\* start a tag line; a mapping value is a tag code, None or a JSON list.
Separator == <<" ", " ", "-">>

ListValue == <<"<list>">>

SemanticKeys ==
    {"title", "journal_name", "publication_year", "abstract", "author",
     "keywords"}

\* len(line) >= 6 and line[2:5] == "  -"
IsTagLine(line) == Len(line) >= 6 /\ SubSeq(line, 3, 5) = Separator

\* line[:2]
TagOf(line) == SubSeq(line, 1, 2)

\* line[6:].strip()
ContentOf(line) == PyStrip(SubSeq(line, 7, Len(line)))

\* tag_mapping.get(key)
Get(m, key) == IF key \in DOMAIN m.fields THEN m.fields[key] ELSE None

\* tag_mapping.values()
Values(m) == {m.fields[k] : k \in DOMAIN m.fields}

\* Truth value of a tag read from the mapping.
Truthy(tag) == tag # None /\ tag # <<>>

\* A loop in which a line without tag starts a new element of the tag.
ScanLineContinuationAppends(st, raw, relevant_tags) ==
    LET line == PyStrip(raw)
    IN  IF line = <<>> THEN st
        ELSE IF IsTagLine(line)
        THEN LET tag == TagOf(line)
                 current_tag == IF tag \in relevant_tags THEN tag ELSE None
             IN  [tags |-> IF Truthy(current_tag)
                           THEN [st.tags EXCEPT ![current_tag] =
                                    Append(@, ContentOf(line))]
                           ELSE st.tags,
                  current_tag |-> current_tag]
        ELSE IF Truthy(st.current_tag) /\ st.tags[st.current_tag] # <<>>
        THEN [st EXCEPT !.tags[st.current_tag] = Append(@, line)]
        ELSE st

\* A loop in which a tag line no key maps to leaves the current tag as it is.
ScanLineKeepsTag(st, raw, relevant_tags) ==
    LET line == PyStrip(raw)
    IN  IF line = <<>> THEN st
        ELSE IF IsTagLine(line)
        THEN LET tag == TagOf(line)
             IN  IF tag \in relevant_tags
                 THEN [tags |-> [st.tags EXCEPT ![tag] =
                                    Append(@, ContentOf(line))],
                       current_tag |-> tag]
                 ELSE st
        ELSE IF Truthy(st.current_tag) /\ st.tags[st.current_tag] # <<>>
        THEN [st EXCEPT !.tags[st.current_tag] =
                 [@ EXCEPT ![Len(@)] = @ \o <<" ">> \o line]]
        ELSE st

\* One turn of the loop over record_str.splitlines().
ScanLine(st, raw, relevant_tags) ==
    LET line == PyStrip(raw)
    IN  IF line = <<>> THEN st
        ELSE IF IsTagLine(line)
        THEN LET tag == TagOf(line)
                 current_tag == IF tag \in relevant_tags THEN tag ELSE None
             IN  [tags |-> IF Truthy(current_tag)
                           THEN [st.tags EXCEPT ![current_tag] =
                                    Append(@, ContentOf(line))]
                           ELSE st.tags,
                  current_tag |-> current_tag]
        ELSE IF Truthy(st.current_tag) /\ st.tags[st.current_tag] # <<>>
        THEN [st EXCEPT !.tags[st.current_tag] =
                 [@ EXCEPT ![Len(@)] = @ \o <<" ">> \o line]]
        ELSE st

RECURSIVE Scan(_, _, _)
Scan(st, lines, relevant_tags) ==
    IF lines = <<>> THEN st
    ELSE Scan(ScanLine(st, Head(lines), relevant_tags), Tail(lines),
              relevant_tags)

\* ''.join(values)
RECURSIVE JoinWithoutSpace(_)
JoinWithoutSpace(values) ==
    IF values = <<>> THEN <<>>
    ELSE values[1] \o JoinWithoutSpace(Tail(values))

\* ' '.join(values)
RECURSIVE JoinSpace(_)
JoinSpace(values) ==
    IF values = <<>> THEN <<>>
    ELSE IF Len(values) = 1 THEN values[1]
    ELSE values[1] \o <<" ">> \o JoinSpace(Tail(values))

DigitValue(c) ==
    CASE c = "0" -> 0 [] c = "1" -> 1 [] c = "2" -> 2 [] c = "9" -> 9

\* \d and \w of the pattern, on the characters the lines are written in.
IsDigit(c) == c \in {"0", "1", "2", "9"}

IsWordChar(c) ==
    \/ IsDigit(c)
    \/ c \in {"a", "b", "c", "k", "o", "f", "x", "z", "_", "A", "B", "D", "E",
              "F", "I", "J", "K", "O", "P", "R", "S", "T", "U", "W", "X", "Y"}

\* The pattern \d{4} without the two \b.
MatchesAnyFourDigits(v) ==
    {i \in 1..(Len(v) - 3) : \A k \in 0..3 : IsDigit(v[i + k])}

\* The offsets where r'\b\d{4}\b' matches.
Matches(v) ==
    {i \in 1..(Len(v) - 3) :
        /\ \A k \in 0..3 : IsDigit(v[i + k])
        /\ i = 1 \/ ~ IsWordChar(v[i - 1])
        /\ i + 3 = Len(v) \/ ~ IsWordChar(v[i + 4])}

SetMin(S) == CHOOSE m \in S : \A x \in S : m <= x

\* int(match.group()) for the four digits at offset i.
IntAt(v, i) ==
    1000 * DigitValue(v[i]) + 100 * DigitValue(v[i + 1])
      + 10 * DigitValue(v[i + 2]) + DigitValue(v[i + 3])

\* match = re.search(..); year = int(match.group()) if match else None
YearOf(v) == IF Matches(v) = {} THEN NoneInt ELSE IntAt(v, SetMin(Matches(v)))

\* tags[tag] if tag and tags.get(tag), else the empty list.
ValuesFor(tags, m, key) ==
    LET tag == Get(m, key)
    IN  IF Truthy(tag) /\ tags[tag] # <<>> THEN tags[tag] ELSE <<>>

YearField(tags, m) ==
    LET values == ValuesFor(tags, m, "publication_year")
    IN  IF values = <<>> THEN NoneInt ELSE YearOf(values[1])

\* The result dict built from the accumulated values.
BuildResult(tags, m) ==
    LET title == ValuesFor(tags, m, "title")
        journal == ValuesFor(tags, m, "journal_name")
        abstract == ValuesFor(tags, m, "abstract")
        authors == ValuesFor(tags, m, "author")
        keywords == ValuesFor(tags, m, "keywords")
    IN  [title |-> IF title = <<>> THEN None ELSE title[1],
         journal |-> IF journal = <<>> THEN None ELSE journal[1],
         year |-> YearField(tags, m),
         abstract |-> IF abstract = <<>> THEN None ELSE JoinSpace(abstract),
         authors |-> [i \in DOMAIN authors |-> PyStrip(authors[i])],
         keywords |-> [i \in DOMAIN keywords |-> PyStrip(keywords[i])]]

\* The accumulator after the loop over the lines.
Accumulate(lines, m) ==
    Scan([tags |-> [tag \in Values(m) |-> <<>>], current_tag |-> None],
         lines, Values(m))

\* An extraction that needs a tag code under every key.
parse_ris_record_strict(lines, m) ==
    IF m.kind # "dict" THEN [raised |-> "AttributeError"]
    ELSE IF ListValue \in Values(m) THEN [raised |-> "TypeError"]
    ELSE IF None \in Values(m) THEN [raised |-> "KeyError"]
    ELSE [raised |-> NoneStr, record |-> BuildResult(Accumulate(lines, m).tags, m)]

\* parse_ris_record: the record, or the exception the call raises
\* (AttributeError when the mapping has no values(), TypeError when a value
\* cannot be a dict key).
parse_ris_record(lines, m) ==
    IF m.kind # "dict" THEN [raised |-> "AttributeError"]
    ELSE IF ListValue \in Values(m) THEN [raised |-> "TypeError"]
    ELSE [raised |-> NoneStr, record |-> BuildResult(Accumulate(lines, m).tags, m)]

\* line.startswith("ER") and ("  -" in line or line == "ER")
Contains(line, sub) ==
    \E i \in 1..(Len(line) - Len(sub) + 1) :
        SubSeq(line, i, i + Len(sub) - 1) = sub

IsEndOfRecord(line) ==
    /\ Len(line) >= 2
    /\ SubSeq(line, 1, 2) = <<"E", "R">>
    /\ Contains(line, Separator) \/ line = <<"E", "R">>

\* if parsed_record.get('title')
HasTitle(record) == record.title # None /\ record.title # <<>>

\* A flush that keeps a record whatever its title.
FlushKeepsAll(st, m) ==
    IF st.current_record = <<>> \/ st.raised # NoneStr THEN st
    ELSE LET parsed == parse_ris_record(st.current_record, m)
         IN  IF parsed.raised # NoneStr
             THEN [st EXCEPT !.raised = parsed.raised]
             ELSE [st EXCEPT !.records = Append(@, parsed.record),
                             !.current_record = <<>>]

\* if current_record: parse it, keep the record if it has a title.
Flush(st, m) ==
    IF st.current_record = <<>> \/ st.raised # NoneStr THEN st
    ELSE LET parsed == parse_ris_record(st.current_record, m)
         IN  IF parsed.raised # NoneStr
             THEN [st EXCEPT !.raised = parsed.raised]
             ELSE [st EXCEPT !.records = IF HasTitle(parsed.record)
                                         THEN Append(@, parsed.record) ELSE @,
                             !.current_record = <<>>]

\* One turn of the loop over content.splitlines().
ContentLine(st, raw, m) ==
    LET line == PyStrip(raw)
    IN  IF st.raised # NoneStr THEN st
        ELSE IF IsEndOfRecord(line) THEN Flush(st, m)
        ELSE IF line # <<>>
        THEN [st EXCEPT !.current_record = Append(@, line)]
        ELSE st

RECURSIVE ContentLoop(_, _, _)
ContentLoop(st, lines, m) ==
    IF lines = <<>> THEN st
    ELSE ContentLoop(ContentLine(st, Head(lines), m), Tail(lines), m)

\* A parser that forgets the lines left in the buffer after the last line.
FinalFlushDropped(st, m) == [st EXCEPT !.current_record = <<>>]

\* "Handle case where last record doesn't end with ER".
FinalFlush(st, m) == Flush(st, m)

\* parse_ris_content: the list of records, or the exception raised.
parse_ris_content(lines, m) ==
    LET st == FinalFlush(ContentLoop([records |-> <<>>, current_record |-> <<>>,
                                      raised |-> NoneStr], lines, m), m)
    IN  [raised |-> st.raised,
         records |-> IF st.raised = NoneStr THEN st.records ELSE <<>>]

(* --------------------------- parser inputs ----------------------------- *)

DefaultTag(key) ==
    CASE key = "title" -> <<"T", "I">>
      [] key = "journal_name" -> <<"J", "O">>
      [] key = "publication_year" -> <<"P", "Y">>
      [] key = "abstract" -> <<"A", "B">>
      [] key = "author" -> <<"A", "U">>
      [] key = "keywords" -> <<"K", "W">>

\* A JSON object with the six keys; the keys in "nulls" hold null.
MappingWithNulls(nulls) ==
    [kind |-> "dict",
     fields |-> [k \in SemanticKeys |->
                    IF k \in nulls THEN None ELSE DefaultTag(k)]]

\* A JSON object that holds only the keys in "keys".
MappingWithKeys(keys) ==
    [kind |-> "dict", fields |-> [k \in keys |-> DefaultTag(k)]]

FullMapping == MappingWithNulls({})

\* The mappings of the six keys with none, one, five or six nulls.
RecordMappings ==
    {MappingWithNulls(nulls) : nulls \in
        {S \in SUBSET SemanticKeys : Cardinality(S) \in {0, 1, 5, 6}}}

\* What json.loads(generate_tag_mapping(..)) can give: a JSON object (with
\* nulls, with keys missing, with a list as a value), another JSON value, or
\* an exception ("nojson": generate_tag_mapping returned None).
FileMappings ==
    { FullMapping,
      MappingWithNulls({"title"}),
      MappingWithKeys({"title", "author"}),
      MappingWithKeys(SemanticKeys \ {"title"}),
      [kind |-> "dict",
       fields |-> [k \in SemanticKeys |->
                      IF k = "author" THEN ListValue ELSE DefaultTag(k)]],
      [kind |-> "array"],
      [kind |-> "nojson"] }

\* Lines of a record chunk:
\*   "TI  - a"   " AB  -  b "   "AU  - S"   "AU  - D"   "JO  - J"
\*   "KW  -x" (a tag line with empty content)   "XX  - z" (a tag no key maps to)
\*   "PY  - F 2020"   "PY  - c1999"   "of 2021" (a line without tag)
\*   "AB  - " (an abstract line with nothing behind the separator)
ChunkLines ==
    { <<"T", "I", " ", " ", "-", " ", "a">>,
      <<" ", "A", "B", " ", " ", "-", " ", " ", "b", " ">>,
      <<"A", "U", " ", " ", "-", " ", "S">>,
      <<"A", "U", " ", " ", "-", " ", "D">>,
      <<"J", "O", " ", " ", "-", " ", "J">>,
      <<"K", "W", " ", " ", "-", "x">>,
      <<"X", "X", " ", " ", "-", " ", "z">>,
      <<"P", "Y", " ", " ", "-", " ", "F", " ", "2", "0", "2", "0">>,
      <<"P", "Y", " ", " ", "-", " ", "c", "1", "9", "9", "9">>,
      <<"o", "f", " ", "2", "0", "2", "1">>,
      <<"A", "B", " ", " ", "-", " ">> }

Chunks == SeqsUpTo(ChunkLines, MaxLines)

\* Lines of an uploaded file:
\*   "TI  - a"   "TI  -x" (a title line with empty content)   " AU  - S"
\*   "of" (a line without tag)   "ER  - "   "ER"   " " (a blank line)
\*   "ERa  - b" (text that begins with ER and holds the separator further on)
FileLines ==
    { <<"T", "I", " ", " ", "-", " ", "a">>,
      <<"T", "I", " ", " ", "-", "x">>,
      <<" ", "A", "U", " ", " ", "-", " ", "S">>,
      <<"o", "f">>,
      <<"E", "R", " ", " ", "-", " ">>,
      <<"E", "R">>,
      <<"E", "R", "a", " ", " ", "-", " ", "b">>,
      <<" ">> }

Contents == SeqsUpTo(FileLines, MaxLines)

(* ------------------------- ingestion outcome --------------------------- *)

\* The dict process_uploaded_file returns.
Report(recs, p, n) ==
    [total_records |-> Len(recs), unique_stored |-> n,
     full_duplicates_found |-> Len(p.full),
     partial_duplicates_found |-> Len(p.partial),
     full_duplicates_info |-> p.full,
     partial_duplicates_info |-> p.partial]

\* What safe_process_uploaded_file hands to its caller: (results, None).
OnSuccess(recs, p, n) ==
    [result |-> <<Report(recs, p, n)>>, error |-> NoneStr]

\* OnFailure with the exception swallowed: the report is returned all the same.
OnFailureReports(recs, p, n) == OnSuccess(recs, p, n)

\* except Exception as e: conn.rollback(); raise e -- and in the caller
\* except Exception as e: return None, f"Processing Error: {str(e)}"
OnFailure(recs, p, n) == [result |-> <<>>, error |-> "Processing Error"]

\* Rollback that keeps what the connection wrote (a commit in the handler).
RollbackKeepsPending(committed, pending) == pending

\* conn.rollback(): the store keeps the committed rows, the connection's
\* pending rows are dropped.
Rollback(committed, pending) == committed

\* conn.commit(): the connection's pending rows become the store.
CommitTx(committed, pending) == pending

(* ------------------------------ state ---------------------------------- *)

\* No mapping has been asked for yet.
NoMapping == [kind |-> "none"]

\* The rows session s sees through its write connection.
Working(s) == IF tx[s] = <<>> THEN db ELSE tx[s][1]

\* SQLite allows one write transaction at a time on a database file.
WriteLockFree(s) == \A t \in Sessions \ {s} : tx[t] = <<>>

\* initialize_session_state: the defaults of the screening keys of
\* st.session_state, with the text of the confirmation field (confirm) and
\* the button the current run was started by (clicked).
ScreeningDefaults ==
    [results |-> <<>>, completed |-> FALSE, final |-> <<>>, confirm |-> <<>>,
     clicked |-> NoneStr]

\* main() has created the schema; one browser session is open (a session that
\* is "off" never acts).
Constructed ==
    /\ db = EmptyDb
    /\ tx = [s \in Sessions |-> <<>>]
    /\ pc = [s \in Sessions |-> IF s = 1 THEN "idle" ELSE "off"]
    /\ source_name = [s \in Sessions |-> NoneStr]
    /\ records = [s \in Sessions |-> <<>>]
    /\ parts = [s \in Sessions |-> NoParts]
    /\ stored_count = [s \in Sessions |-> 0]
    /\ result = [s \in Sessions |-> <<>>]
    /\ error = [s \in Sessions |-> NoneStr]
    /\ db0 = [s \in Sessions |-> EmptyDb]
    /\ decisions = [s \in Sessions |-> <<>>]
    /\ calls = <<>>
    /\ extracted = <<>>
    /\ notice = [s \in Sessions |-> NoneStr]
    /\ screening = [s \in Sessions |-> ScreeningDefaults]

\* The ingestion steps below start from the records of a parsed file.
Init ==
    /\ Constructed
    /\ content = <<>>
    /\ tag_mapping = NoMapping

\* The steps process_uploaded_file runs from the records it parsed.
\* "Process File" pressed: the file is parsed into its list of records.
UploadFrom(s, batches) ==
    /\ pc[s] = "idle"
    /\ \E src \in SourceNames, recs \in batches :
          /\ Cardinality(db.articles) + Len(recs) <= MaxArticles
          /\ source_name' = [source_name EXCEPT ![s] = src]
          /\ records' = [records EXCEPT ![s] = recs]
    /\ db0' = [db0 EXCEPT ![s] = db]
    /\ pc' = [pc EXCEPT ![s] = "parsed"]
    /\ notice' = [notice EXCEPT ![s] = NoneStr]
    /\ UNCHANGED <<db, tx, parts, stored_count, result, error>>
    /\ UNCHANGED <<content, tag_mapping, decisions, calls, extracted, screening>>

Upload(s) == UploadFrom(s, Batches)

\* unique_records, full_duplicates, partial_duplicates = check_duplicates(..)
Classify(s) ==
    /\ pc[s] = "parsed"
    /\ parts' = [parts EXCEPT ![s] =
                    check_duplicates(db, records[s], source_name[s])]
    /\ stored_count' = [stored_count EXCEPT ![s] = 0]
    /\ db' = StoreAfterCheck(db, records[s], source_name[s])
    /\ pc' = [pc EXCEPT ![s] = "storing"]
    /\ UNCHANGED <<tx, source_name, records, result, error, db0>>
    /\ UNCHANGED <<content, tag_mapping, decisions, calls, extracted, notice>>
    /\ UNCHANGED screening

\* A duplicate lookup of check_duplicates raises: the storing connection is
\* not open yet, the exception leaves process_uploaded_file at once.
ClassifyFail(s) ==
    /\ pc[s] = "parsed"
    /\ \E i \in DOMAIN records[s] :
          LET q == CheckFailing(db, records[s], source_name[s], i)
              out == OnFailure(records[s], q.parts, 0)
          IN  IF q.raised
              THEN /\ pc' = [pc EXCEPT ![s] = "error"]
                   /\ result' = [result EXCEPT ![s] = out.result]
                   /\ error' = [error EXCEPT ![s] = out.error]
                   /\ UNCHANGED parts
              ELSE /\ pc' = [pc EXCEPT ![s] = "storing"]
                   /\ parts' = [parts EXCEPT ![s] = q.parts]
                   /\ UNCHANGED <<result, error>>
    /\ stored_count' = [stored_count EXCEPT ![s] = 0]
    /\ UNCHANGED <<db, tx, source_name, records, db0>>
    /\ UNCHANGED <<content, tag_mapping, decisions, calls, extracted, notice>>
    /\ UNCHANGED screening

\* The storing loop run over every parsed record.
ToStoreAllRecords(s) == records[s]

\* The storing loop looking each record up again before it inserts it.
ToStoreRechecked(s) ==
    LET StillUnique(record) == TitleDuplicates(db, record) = {}
    IN  SelectSeq(parts[s].unique, StillUnique)

\* The records the storing loop iterates over: for record in unique_records.
ToStore(s) == parts[s].unique

\* One iteration of the loop: store_record_in_database; stored_count += 1.
StoreRecord(s) ==
    /\ pc[s] = "storing"
    /\ stored_count[s] < Len(ToStore(s))
    /\ WriteLockFree(s)
    /\ tx' = [tx EXCEPT ![s] =
                <<store_record_in_database(Working(s),
                     ToStore(s)[stored_count[s] + 1], source_name[s])>>]
    /\ stored_count' = [stored_count EXCEPT ![s] = @ + 1]
    /\ UNCHANGED <<db, pc, source_name, records, parts, result, error, db0>>
    /\ UNCHANGED <<content, tag_mapping, decisions, calls, extracted, notice>>
    /\ UNCHANGED screening

\* A statement of store_record_in_database raises after k of its groups of
\* statements ran: the handler rolls back and re-raises.
StoreFail(s) ==
    /\ pc[s] = "storing"
    /\ stored_count[s] < Len(ToStore(s))
    /\ \E k \in 0..(StoreGroups - 1) :
          LET pending == StorePrefix(Working(s),
                            ToStore(s)[stored_count[s] + 1], source_name[s], k)
              out == OnFailure(records[s], parts[s], stored_count[s])
          IN  /\ db' = Rollback(db, pending)
              /\ result' = [result EXCEPT ![s] = out.result]
              /\ error' = [error EXCEPT ![s] = out.error]
    /\ tx' = [tx EXCEPT ![s] = <<>>]
    /\ pc' = [pc EXCEPT ![s] = "error"]
    /\ UNCHANGED <<source_name, records, parts, stored_count, db0>>
    /\ UNCHANGED <<content, tag_mapping, decisions, calls, extracted, notice>>
    /\ UNCHANGED screening

\* conn.commit() succeeds and the report is returned.
Commit(s) ==
    /\ pc[s] = "storing"
    /\ stored_count[s] = Len(ToStore(s))
    /\ LET out == OnSuccess(records[s], parts[s], stored_count[s])
       IN  /\ db' = CommitTx(db, Working(s))
           /\ result' = [result EXCEPT ![s] = out.result]
           /\ error' = [error EXCEPT ![s] = out.error]
    /\ tx' = [tx EXCEPT ![s] = <<>>]
    /\ pc' = [pc EXCEPT ![s] = "done"]
    /\ UNCHANGED <<source_name, records, parts, stored_count, db0>>
    /\ UNCHANGED <<content, tag_mapping, decisions, calls, extracted, notice>>
    /\ UNCHANGED screening

\* conn.commit() raises: the handler rolls back and re-raises.
CommitFail(s) ==
    /\ pc[s] = "storing"
    /\ stored_count[s] = Len(ToStore(s))
    /\ LET out == OnFailure(records[s], parts[s], stored_count[s])
       IN  /\ db' = Rollback(db, Working(s))
           /\ result' = [result EXCEPT ![s] = out.result]
           /\ error' = [error EXCEPT ![s] = out.error]
    /\ tx' = [tx EXCEPT ![s] = <<>>]
    /\ pc' = [pc EXCEPT ![s] = "error"]
    /\ UNCHANGED <<source_name, records, parts, stored_count, db0>>
    /\ UNCHANGED <<content, tag_mapping, decisions, calls, extracted, notice>>
    /\ UNCHANGED screening

\* The page has been rendered; the script waits for the next upload.
Rerun(s) ==
    /\ pc[s] \in {"done", "error"}
    /\ pc' = [pc EXCEPT ![s] = "idle"]
    /\ source_name' = [source_name EXCEPT ![s] = NoneStr]
    /\ records' = [records EXCEPT ![s] = <<>>]
    /\ parts' = [parts EXCEPT ![s] = NoParts]
    /\ stored_count' = [stored_count EXCEPT ![s] = 0]
    /\ result' = [result EXCEPT ![s] = <<>>]
    /\ error' = [error EXCEPT ![s] = NoneStr]
    /\ db0' = [db0 EXCEPT ![s] = EmptyDb]
    /\ notice' = [notice EXCEPT ![s] = NoneStr]
    /\ UNCHANGED <<db, tx>>
    /\ UNCHANGED <<content, tag_mapping, decisions, calls, extracted, screening>>

Next ==
    \E s \in Sessions :
        \/ Upload(s)
        \/ Classify(s)
        \/ ClassifyFail(s)
        \/ StoreRecord(s)
        \/ StoreFail(s)
        \/ Commit(s)
        \/ CommitFail(s)
        \/ Rerun(s)

Spec == Init /\ [][Next]_vars

(* ---------------------- review of partial matches ---------------------- *)

\* The options of the radio button of display_partial_duplicates_analysis.
ReviewLater == "Review Later"

IsDuplicate == "It's a duplicate - Don't add"

IsUnique == "It's unique - Add to database"

Options == {ReviewLater, IsDuplicate, IsUnique}

\* The list display_partial_duplicates_analysis is called with:
\* results['partial_duplicates_info'] of the run that processed the file.
PartialInfo(s) ==
    IF pc[s] = "done" /\ result[s] # <<>>
    THEN result[s][1].partial_duplicates_info ELSE <<>>

\* st.session_state.partial_duplicate_decisions after the loop over the list:
\* the entry under partial_dup_i is overwritten for every i of the list, the
\* entries under other keys stay.  Entry k of the sequence is the value under
\* the key partial_dup_(k-1).
WriteDecisions(old, info, choice) ==
    [k \in 1..(IF Len(old) > Len(info) THEN Len(old) ELSE Len(info)) |->
        IF k <= Len(info)
        THEN [decision |-> choice[k], record |-> info[k].new_record,
              source_name |-> info[k].source_name]
        ELSE old[k]]

\* any(d['decision'] != "Review Later" for d in ..values())
ButtonShown(dec) == \E k \in DOMAIN dec : dec[k].decision # ReviewLater

\* The page shows the list of session s with the radio buttons as they are
\* recorded in the session state.
Displayed(s) ==
    /\ PartialInfo(s) # <<>>
    /\ Len(decisions[s]) >= Len(PartialInfo(s))
    /\ \A k \in DOMAIN PartialInfo(s) :
          /\ decisions[s][k].record = PartialInfo(s)[k].new_record
          /\ decisions[s][k].source_name = PartialInfo(s)[k].source_name

\* records_to_add that takes every record not marked as a duplicate.
RecordsToAddUnlessDuplicate(dec) ==
    SelectSeq(dec, LAMBDA d : d.decision # IsDuplicate)

\* records_to_add: the entries whose decision is "unique - add", in the
\* order of the dict.
RecordsToAdd(dec) == SelectSeq(dec, LAMBDA d : d.decision = IsUnique)

\* for item in records_to_add: store_record_in_database(cursor, ..)
RECURSIVE StoreItems(_, _)
StoreItems(d, items) ==
    IF items = <<>> THEN d
    ELSE StoreItems(store_record_in_database(d, Head(items).record,
                                             Head(items).source_name),
                    Tail(items))

\* display_partial_duplicates_analysis renders the list and the user sets the
\* radio buttons; "Process My Decisions" is not pressed.
Review(s) ==
    /\ PartialInfo(s) # <<>>
    /\ \E choice \in [DOMAIN PartialInfo(s) -> Options] :
          decisions' = [decisions EXCEPT ![s] =
                           WriteDecisions(@, PartialInfo(s), choice)]
    /\ notice' = [notice EXCEPT ![s] = NoneStr]
    /\ UNCHANGED <<db, tx, pc, source_name, records, parts, stored_count,
                   result, error, db0, content, tag_mapping, calls, extracted,
                   screening>>

\* process_partial_duplicate_decisions without the line that clears the
\* decisions after the commit.
ProcessDecisionsKeepsDecisions(s) ==
    /\ Displayed(s)
    /\ ButtonShown(decisions[s])
    /\ \A t \in Sessions : tx[t] = <<>>
    /\ Cardinality(db.articles) + Len(RecordsToAdd(decisions[s])) <= MaxArticles
    /\ IF RecordsToAdd(decisions[s]) # <<>>
       THEN /\ db' = CommitTx(db, StoreItems(db, RecordsToAdd(decisions[s])))
            /\ notice' = [notice EXCEPT ![s] = "Successfully added"]
            /\ pc' = [pc EXCEPT ![s] = "idle"]
            /\ source_name' = [source_name EXCEPT ![s] = NoneStr]
            /\ records' = [records EXCEPT ![s] = <<>>]
            /\ parts' = [parts EXCEPT ![s] = NoParts]
            /\ stored_count' = [stored_count EXCEPT ![s] = 0]
            /\ result' = [result EXCEPT ![s] = <<>>]
            /\ db0' = [db0 EXCEPT ![s] = EmptyDb]
            /\ UNCHANGED decisions
       ELSE /\ notice' = [notice EXCEPT ![s] = "No records were selected"]
            /\ UNCHANGED <<db, decisions, pc, source_name, records, parts,
                           stored_count, result, db0>>
    /\ UNCHANGED <<tx, error, content, tag_mapping, calls, extracted, screening>>

\* "Process My Decisions" pressed: process_partial_duplicate_decisions stores
\* the approved records, commits, clears the decisions and calls st.rerun();
\* with nothing approved it only tells so.
ProcessDecisions(s) ==
    /\ Displayed(s)
    /\ ButtonShown(decisions[s])
    /\ \A t \in Sessions : tx[t] = <<>>
    /\ Cardinality(db.articles) + Len(RecordsToAdd(decisions[s])) <= MaxArticles
    /\ IF RecordsToAdd(decisions[s]) # <<>>
       THEN /\ db' = CommitTx(db, StoreItems(db, RecordsToAdd(decisions[s])))
            /\ decisions' = [decisions EXCEPT ![s] = <<>>]
            /\ notice' = [notice EXCEPT ![s] = "Successfully added"]
            /\ pc' = [pc EXCEPT ![s] = "idle"]
            /\ source_name' = [source_name EXCEPT ![s] = NoneStr]
            /\ records' = [records EXCEPT ![s] = <<>>]
            /\ parts' = [parts EXCEPT ![s] = NoParts]
            /\ stored_count' = [stored_count EXCEPT ![s] = 0]
            /\ result' = [result EXCEPT ![s] = <<>>]
            /\ db0' = [db0 EXCEPT ![s] = EmptyDb]
       ELSE /\ notice' = [notice EXCEPT ![s] = "No records were selected"]
            /\ UNCHANGED <<db, decisions, pc, source_name, records, parts,
                           stored_count, result, db0>>
    /\ UNCHANGED <<tx, error, content, tag_mapping, calls, extracted, screening>>

\* "Process My Decisions" pressed and a statement of the j-th insert raises
\* after k of its groups: rollback, an error message, the decisions stay.
ProcessDecisionsFail(s) ==
    /\ Displayed(s)
    /\ ButtonShown(decisions[s])
    /\ \A t \in Sessions : tx[t] = <<>>
    /\ \E j \in DOMAIN RecordsToAdd(decisions[s]), k \in 0..(StoreGroups - 1) :
          LET items == RecordsToAdd(decisions[s])
              done == StoreItems(db, SubSeq(items, 1, j - 1))
              pending == StorePrefix(done, items[j].record,
                                     items[j].source_name, k)
          IN  db' = Rollback(db, pending)
    /\ notice' = [notice EXCEPT ![s] = "Error adding records"]
    /\ UNCHANGED <<tx, pc, source_name, records, parts, stored_count, result,
                   error, db0, content, tag_mapping, decisions, calls,
                   extracted, screening>>

\* Records with which one stored article gives partial matches of both kinds.
ReviewPool ==
    { Rec(<<"a">>, <<"a", "b">>, "J", 2020, <<"Smith", "Doe">>, <<"ai">>),
      Rec(<<"A">>, None, NoneStr, NoneInt, <<>>, <<>>) }

ReviewBatches == SeqsUpTo(ReviewPool, MaxBatch - 1)

ReviewUpload(s) == UploadFrom(s, ReviewBatches)

ReviewNext ==
    \E s \in Sessions :
        \/ ReviewUpload(s)
        \/ Classify(s)
        \/ StoreRecord(s)
        \/ StoreFail(s)
        \/ Commit(s)
        \/ Rerun(s)
        \/ Review(s)
        \/ ProcessDecisions(s)
        \/ ProcessDecisionsFail(s)

ReviewSpec == Init /\ [][ReviewNext]_vars

(* --------------------------- parsing a file ---------------------------- *)

\* What safe_process_uploaded_file tells its caller for an exception raised
\* before the records are there.
OnParseFailure(raised) ==
    [result |-> <<>>,
     error |-> CASE raised = "TypeError" -> "Tag Mapping Error"
                 [] raised = "JsonTypeError" -> "Type Error"
                 [] OTHER -> "Processing Error"]

\* A parse step that answers an exception with an empty list of records.
ParseOutcomeSwallows(lines, m) ==
    IF m.kind = "nojson" \/ parse_ris_content(lines, m).raised # NoneStr
    THEN [raised |-> NoneStr, records |-> <<>>]
    ELSE parse_ris_content(lines, m)

\* tag_mapping = json.loads(..); records = parse_ris_content(content, ..)
ParseOutcome(lines, m) ==
    IF m.kind = "nojson" THEN [raised |-> "JsonTypeError", records |-> <<>>]
    ELSE parse_ris_content(lines, m)

\* "Process File" pressed on an uploaded file: the mapping is read and the
\* content parsed into records.
ParseFile(s) ==
    /\ pc[s] = "idle"
    /\ tag_mapping # NoMapping
    /\ ParseOutcome(content, tag_mapping).raised = NoneStr
    /\ \E src \in SourceNames : source_name' = [source_name EXCEPT ![s] = src]
    /\ records' = [records EXCEPT ![s] =
                      ParseOutcome(content, tag_mapping).records]
    /\ db0' = [db0 EXCEPT ![s] = db]
    /\ pc' = [pc EXCEPT ![s] = "parsed"]
    /\ UNCHANGED <<db, tx, parts, stored_count, result, error, content,
                   tag_mapping, decisions, calls, extracted, screening, notice>>

\* json.loads or parse_ris_content raises: the exception leaves
\* process_uploaded_file before check_duplicates is called.
ParseFails(s) ==
    /\ pc[s] = "idle"
    /\ tag_mapping # NoMapping
    /\ ParseOutcome(content, tag_mapping).raised # NoneStr
    /\ LET out == OnParseFailure(ParseOutcome(content, tag_mapping).raised)
       IN  /\ result' = [result EXCEPT ![s] = out.result]
           /\ error' = [error EXCEPT ![s] = out.error]
    /\ \E src \in SourceNames : source_name' = [source_name EXCEPT ![s] = src]
    /\ db0' = [db0 EXCEPT ![s] = db]
    /\ pc' = [pc EXCEPT ![s] = "error"]
    /\ UNCHANGED <<db, tx, records, parts, stored_count, content, tag_mapping,
                   decisions, calls, extracted, screening, notice>>

\* A file and the mapping the provider gave for it.
ParseInit ==
    /\ Constructed
    /\ content \in Contents
    /\ tag_mapping \in FileMappings

ParseNext ==
    \E s \in Sessions :
        \/ ParseFile(s)
        \/ ParseFails(s)
        \/ Classify(s)

ParseSpec == ParseInit /\ [][ParseNext]_vars

(* ------------------------- extracting a record ------------------------- *)

\* parse_ris_record called on the lines of one chunk.
Extract ==
    /\ extracted = <<>>
    /\ extracted' = <<parse_ris_record(content, tag_mapping)>>
    /\ UNCHANGED <<db, tx, pc, source_name, records, parts, stored_count,
                   result, error, db0, content, tag_mapping, decisions, calls,
                   notice, screening>>

RecordInit ==
    /\ Constructed
    /\ content \in Chunks
    /\ tag_mapping \in RecordMappings

RecordNext == Extract

RecordSpec == RecordInit /\ [][RecordNext]_vars

(* ------------------------- dimension tables ---------------------------- *)

\* Names handed to the lookup-or-create functions: exact-match keys, with the
\* empty string and None.
DimNames == {"Smith", "smith", "", NoneStr}

\* One call on a dimension table, recorded with the id it returned.
DimCall(t, name) ==
    /\ Len(calls) < MaxCalls
    /\ LET g == GetOrCreate(db[t], name)
       IN  /\ db' = [db EXCEPT ![t] = g.table]
           /\ calls' = Append(calls, [table |-> t, name |-> name, id |-> g.id])
    /\ UNCHANGED <<tx, pc, source_name, records, parts, stored_count, result,
                   error, db0, content, tag_mapping, decisions, extracted,
                   screening,
                   notice>>

get_or_create_source(name) == DimCall("sources", name)

get_or_create_journal(name) == DimCall("journals", name)

get_or_create_author(name) == DimCall("authors", name)

get_or_create_keyword(name) == DimCall("keywords", name)

DimNext ==
    \E name \in DimNames :
        \/ get_or_create_source(name)
        \/ get_or_create_journal(name)
        \/ get_or_create_author(name)
        \/ get_or_create_keyword(name)

DimSpec == Init /\ [][DimNext]_vars

(* ----------------------------- properties ------------------------------ *)

\* Sessions whose batch has been classified (an error raised by the
\* classification itself leaves no partitions behind).
Classified ==
    {s \in Sessions :
        \/ pc[s] \in {"storing", "done"}
        \/ pc[s] = "error" /\ (parts[s] # NoParts \/ records[s] = <<>>)}

Range(q) == {q[i] : i \in DOMAIN q}

\* The bag of the elements of a sequence.
BagOfSeq(q) == [x \in Range(q) |-> Cardinality({i \in DOMAIN q : q[i] = x})]

MatchIds(rows) == {r.id : r \in rows}

CommonIds(info) ==
    MatchIds(info.title_duplicates) \cap MatchIds(info.abstract_duplicates)

InUnique(s, rec) == rec \in Range(parts[s].unique)

InFull(s, rec) == \E i \in DOMAIN parts[s].full : parts[s].full[i].new_record = rec

InPartial(s, rec) ==
    \E i \in DOMAIN parts[s].partial : parts[s].partial[i].new_record = rec

\* Article rows added since the session's upload started.
NewArticles(s) == db.articles \ db0[s].articles

SameText(a, rec) == a.title = rec.title /\ a.abstract = rec.abstract

\* C1: a record is classified FullDuplicate exactly when one stored id is in
\* both its title-match set and its abstract-match set; with matches on
\* different rows only, it is a PartialDuplicate.
C1_FullIffCommonRow ==
    \A s \in Classified :
        /\ \A i \in DOMAIN parts[s].full : CommonIds(parts[s].full[i]) # {}
        /\ \A i \in DOMAIN parts[s].partial : CommonIds(parts[s].partial[i]) = {}
        /\ \A rec \in Range(records[s]) :
              InFull(s, rec) <=>
                 CommonIds(DuplicateInfo(db0[s], rec, source_name[s])) # {}

\* Scenario B: a partial duplicate with a title match on one row and an
\* abstract match on another.
C1_Witness ==
    \E s \in Classified : \E i \in DOMAIN parts[s].partial :
        /\ parts[s].partial[i].title_duplicates # {}
        /\ parts[s].partial[i].abstract_duplicates # {}

C3_FailureRollsBackBatch ==
    \A s \in Sessions :
        pc[s] = "error" =>
            /\ db = db0[s]
            /\ tx[s] = <<>>
            /\ error[s] # NoneStr

\* The second of three unique inserts failed, on a store that held articles.
C3_Witness ==
    \E s \in Sessions :
        /\ pc[s] = "error"
        /\ stored_count[s] = 1
        /\ Len(parts[s].unique) = 3
        /\ db0[s].articles # {}

\* C4: a report reaches the caller only when the transaction that inserted its
\* unique_stored records was committed; after a failed insert or commit the
\* caller gets an error and no report.
C4_ReportOnlyAfterCommit ==
    \A s \in Sessions :
        /\ result[s] # <<>> =>
              /\ pc[s] = "done"
              /\ error[s] = NoneStr
              /\ Cardinality(NewArticles(s)) = result[s][1].unique_stored
        /\ pc[s] = "error" => result[s] = <<>> /\ error[s] # NoneStr

\* The commit failed after every unique record had been inserted.
C4_Witness ==
    \E s \in Sessions :
        /\ pc[s] = "error"
        /\ stored_count[s] >= 1
        /\ stored_count[s] = Len(parts[s].unique)

\* C5: every record of the batch is in exactly one of the three partitions,
\* and the report's total is the sum of its three counts.
C5_PartitionExactlyOnce ==
    \A s \in Classified :
        /\ BagOfSeq(records[s]) =
              BagOfSeq(parts[s].unique)
                (+) BagOfSeq([i \in DOMAIN parts[s].full |->
                                 parts[s].full[i].new_record])
                (+) BagOfSeq([i \in DOMAIN parts[s].partial |->
                                 parts[s].partial[i].new_record])
        /\ \A rec \in Range(records[s]) :
              /\ ~ (InUnique(s, rec) /\ InFull(s, rec))
              /\ ~ (InUnique(s, rec) /\ InPartial(s, rec))
              /\ ~ (InFull(s, rec) /\ InPartial(s, rec))
        /\ result[s] # <<>> =>
              result[s][1].total_records =
                 result[s][1].unique_stored
                   + result[s][1].full_duplicates_found
                   + result[s][1].partial_duplicates_found

\* A successful report of a batch with a record in each partition.
C5_Witness ==
    \E s \in Sessions :
        /\ result[s] # <<>>
        /\ result[s][1].unique_stored >= 1
        /\ result[s][1].full_duplicates_found >= 1
        /\ result[s][1].partial_duplicates_found >= 1

\* C6: on success the article rows grow by exactly the number of Unique
\* records, each new row is one of them, and no record classified
\* FullDuplicate or PartialDuplicate has been inserted.
C6_OnlyUniqueStored ==
    \A s \in Sessions :
        pc[s] = "done" =>
            /\ db0[s].articles \subseteq db.articles
            /\ Cardinality(NewArticles(s)) = Len(parts[s].unique)
            /\ \A a \in NewArticles(s) :
                  /\ \E rec \in Range(parts[s].unique) : SameText(a, rec)
                  /\ ~ \E rec \in Range(records[s]) :
                        SameText(a, rec) /\ (InFull(s, rec) \/ InPartial(s, rec))

\* A successful batch holding a Unique record and a duplicate.
C6_Witness ==
    \E s \in Sessions :
        /\ pc[s] = "done"
        /\ parts[s].unique # <<>>
        /\ parts[s].full \o parts[s].partial # <<>>

\* C7: a record with an absent or empty abstract has an empty abstract-match
\* set whatever the store holds, and no stored row with a NULL abstract is in
\* any abstract-match set.
C7_EmptyAbstractNeverMatches ==
    \A s \in Classified :
        \A info \in Range(parts[s].full) \cup Range(parts[s].partial) :
            /\ info.new_record.abstract \in {None, <<>>} =>
                  info.abstract_duplicates = {}
            /\ \A r \in info.abstract_duplicates : r.abstract # None

\* A record without abstract matched on its title, in a store holding a row
\* with an empty abstract and a row with a NULL abstract.
C7_Witness ==
    \E s \in Classified : \E i \in DOMAIN parts[s].partial :
        /\ parts[s].partial[i].new_record.abstract \in {None, <<>>}
        /\ parts[s].partial[i].title_duplicates # {}
        /\ \E a \in db0[s].articles : a.abstract = <<>>
        /\ \E a \in db0[s].articles : a.abstract = None

\* Trim white space and lower-case, the same on both sides.
Normalized(text) == PyLower(PyStrip(text))

\* C8: a stored title (abstract) and an incoming title (abstract) that differ
\* only in letter case or surrounding white space always match.
C8_CaseAndSpaceInsensitive ==
    \A s \in Classified : \A rec \in Range(records[s]) :
        \A a \in db0[s].articles :
            /\ Normalized(a.title) = Normalized(rec.title) =>
                  a.id \in MatchIds(TitleDuplicates(db0[s], rec))
            /\ ( /\ a.abstract \notin {None, <<>>}
                 /\ rec.abstract \notin {None, <<>>}
                 /\ Normalized(a.abstract) = Normalized(rec.abstract) ) =>
                  a.id \in MatchIds(AbstractDuplicates(db0[s], rec))

\* C9: check_duplicates leaves every table of the store unchanged.
C9_ClassificationReadOnly ==
    [][\A s \in Sessions :
          (pc[s] = "parsed" /\ pc'[s] = "storing") => db' = db /\ tx' = tx]_vars

\* A batch has just been classified against a store that holds articles.
C9_Witness ==
    \E s \in Sessions :
        /\ pc[s] = "storing"
        /\ stored_count[s] = 0
        /\ tx[s] = <<>>
        /\ db.articles # {}
        /\ parts[s].unique # <<>>

\* C10: two records of one batch with the same title and abstract that match
\* nothing stored before the batch are both Unique and both stored.
C10_NoDedupWithinBatch ==
    \A s \in Classified : \A i, j \in DOMAIN records[s] :
        ( /\ i < j
          /\ SameText(records[s][i], records[s][j])
          /\ TitleDuplicates(db0[s], records[s][i]) = {}
          /\ AbstractDuplicates(db0[s], records[s][i]) = {} ) =>
            /\ Cardinality({k \in DOMAIN parts[s].unique :
                              SameText(parts[s].unique[k], records[s][i])}) >= 2
            /\ pc[s] = "done" =>
                  Cardinality({a \in NewArticles(s) :
                                  SameText(a, records[s][i])}) >= 2

\* A committed batch that held the same new record twice.
C10_Witness ==
    \E s \in Sessions :
        /\ pc[s] = "done"
        /\ \E i, j \in DOMAIN records[s] :
              /\ i < j
              /\ records[s][i] = records[s][j]
              /\ InUnique(s, records[s][i])

\* C19: when a duplicate lookup of check_duplicates raises, the caller gets an
\* error and no report, no record of the batch is placed in Unique, and the
\* store is left as it was; a batch only goes on to storing with the
\* partitions check_duplicates computes.
C19_QueryErrorPropagates ==
    [][\A s \in Sessions :
          (pc[s] = "parsed" /\ pc'[s] # "parsed") =>
             \/ /\ pc'[s] = "storing"
                /\ parts'[s] = check_duplicates(db, records[s], source_name[s])
             \/ /\ pc'[s] = "error"
                /\ parts'[s].unique = <<>>
                /\ error'[s] # NoneStr
                /\ result'[s] = <<>>
                /\ db' = db /\ tx' = tx]_vars

\* The lookup failed for a batch of records that match nothing in a store
\* that holds articles: no partition was built and nothing was stored.
C19_Witness ==
    \E s \in Sessions :
        /\ pc[s] = "error"
        /\ records[s] # <<>>
        /\ parts[s] = NoParts
        /\ db.articles # {}
        /\ check_duplicates(db, records[s], source_name[s]).unique # <<>>
        /\ db = db0[s]

DimTables == {"sources", "journals", "authors", "keywords"}

\* C20: after any sequence of get_or_create_* calls each non-empty name that
\* was passed has exactly one row in its table (and no other name has one),
\* every call with that name returned that row's id, and a call with an empty
\* or absent name returned no id and created no row.
C20_LookupOrCreateByExactName ==
    \A t \in DimTables :
        /\ \A r1, r2 \in db[t] : (r1.id = r2.id \/ r1.name = r2.name) => r1 = r2
        /\ {r.name : r \in db[t]} =
              {calls[i].name : i \in {j \in DOMAIN calls :
                  calls[j].table = t /\ calls[j].name \notin {"", NoneStr}}}
        /\ \A i \in DOMAIN calls :
              calls[i].table = t =>
                 IF calls[i].name \in {"", NoneStr}
                 THEN calls[i].id = NoneInt
                 ELSE \E r \in db[t] :
                         r.name = calls[i].name /\ r.id = calls[i].id

\* One table was asked twice for the same name and once for an empty name.
C20_Witness ==
    \E i, j, k \in DOMAIN calls :
        /\ i < j
        /\ calls[i].table = calls[j].table
        /\ calls[i].name = calls[j].name
        /\ calls[i].name \notin {"", NoneStr}
        /\ calls[k].table = calls[i].table
        /\ calls[k].name = ""

\* The chunks of a file: the runs of non-blank lines between end markers.
RECURSIVE SplitChunks(_, _)
SplitChunks(lines, pending) ==
    LET closed == IF pending = <<>> THEN <<>> ELSE <<pending>>
    IN  IF lines = <<>> THEN closed
        ELSE IF IsEndOfRecord(PyStrip(Head(lines)))
        THEN closed \o SplitChunks(Tail(lines), <<>>)
        ELSE IF PyStrip(Head(lines)) = <<>>
        THEN SplitChunks(Tail(lines), pending)
        ELSE SplitChunks(Tail(lines), Append(pending, PyStrip(Head(lines))))

\* A mapping every extraction accepts: a JSON object whose values are tag
\* codes or null.
Extractable(m) == m.kind = "dict" /\ ListValue \notin Values(m)

\* Sessions that have parsed a file.
Parsed == {s \in Sessions : pc[s] \in {"parsed", "storing"}}

\* C13: every record parse_ris_content returns has a non-empty title, so the
\* records handed to check_duplicates and the records in its partitions all
\* have one; the records are the extractions of the chunks that have a title,
\* in file order, and dropping the others raises no error.
C13_TitlelessChunkDropped ==
    \A s \in Sessions :
        /\ \A rec \in Range(records[s]) \cup Range(parts[s].unique) :
              rec.title # None /\ rec.title # <<>>
        /\ (pc[s] \notin {"idle", "off"} /\ Extractable(tag_mapping)) =>
              /\ error[s] = NoneStr
              /\ s \in Parsed
              /\ LET chunks == SplitChunks(content, <<>>)
                     titled == {i \in DOMAIN chunks :
                        parse_ris_record(chunks[i], tag_mapping).record.title
                           \notin {None, <<>>}}
                 IN  /\ Len(records[s]) = Cardinality(titled)
                     /\ \A i \in titled :
                           parse_ris_record(chunks[i], tag_mapping).record
                              \in Range(records[s])

\* A file with a chunk that has a title and a chunk that has none: one record
\* was classified, no error was raised.
C13_Witness ==
    \E s \in Sessions :
        /\ pc[s] = "storing"
        /\ Len(parts[s].unique) = 1
        /\ Len(SplitChunks(content, <<>>)) = 2
        /\ error[s] = NoneStr

\* C14: a file whose last record is not followed by an ER line yields the
\* same records as the file with the ER line: removing a trailing end marker,
\* or appending one, never changes the list parse_ris_content returns.
C14_TrailingTerminatorOptional ==
    \A s \in Parsed :
        /\ records[s] =
              parse_ris_content(Append(content, <<"E", "R">>),
                                tag_mapping).records
        /\ ( /\ content # <<>>
             /\ IsEndOfRecord(PyStrip(content[Len(content)])) ) =>
              records[s] =
                 parse_ris_content(SubSeq(content, 1, Len(content) - 1),
                                   tag_mapping).records

\* A file of two records whose last line is not an end marker.
C14_Witness ==
    \E s \in Parsed :
        /\ Len(records[s]) = 2
        /\ ~ IsEndOfRecord(PyStrip(content[Len(content)]))
        /\ PyStrip(content[Len(content)]) # <<>>

\* The text after the tag line at i-1 that belongs to it: the lines without
\* tag that follow, each behind one space.
RECURSIVE Continuation(_, _)
Continuation(lines, i) ==
    IF i > Len(lines) THEN <<>>
    ELSE LET line == PyStrip(lines[i])
         IN  IF IsTagLine(line) THEN <<>>
             ELSE IF line = <<>> THEN Continuation(lines, i + 1)
             ELSE <<" ">> \o line \o Continuation(lines, i + 1)

\* One element per line of the tag, in file order, from line i on.
RECURSIVE ElementsOf(_, _, _)
ElementsOf(lines, tag, i) ==
    IF i > Len(lines) THEN <<>>
    ELSE LET line == PyStrip(lines[i])
         IN  IF IsTagLine(line) /\ TagOf(line) = tag
             THEN <<ContentOf(line) \o Continuation(lines, i + 1)>>
                     \o ElementsOf(lines, tag, i + 1)
             ELSE ElementsOf(lines, tag, i + 1)

Stripped(values) == [i \in DOMAIN values |-> PyStrip(values[i])]

\* The states in which parse_ris_record has returned a record.
Returned == extracted # <<>> /\ extracted[1].raised = NoneStr

\* C15: each line of a tracked tag adds one element to the tag's sequence, in
\* file order, and a line without tag after a tracked tag line is appended,
\* behind one space, to the most recent element: the authors (keywords) are
\* the trimmed elements of the author (keyword) tag, the title its first
\* element.
C15_ElementsAndContinuations ==
    Returned =>
        LET r == extracted[1].record
            m == tag_mapping
        IN  /\ Get(m, "author") # None =>
                  r.authors = Stripped(ElementsOf(content, Get(m, "author"), 1))
            /\ Get(m, "keywords") # None =>
                  r.keywords =
                     Stripped(ElementsOf(content, Get(m, "keywords"), 1))
            /\ (Get(m, "title") # None /\ r.title # None) =>
                  r.title = ElementsOf(content, Get(m, "title"), 1)[1]

\* Two author lines with a line without tag between them: two authors, the
\* first one carrying the text of the line without tag.
C15_Witness ==
    /\ Returned
    /\ Len(content) = 3
    /\ ~ IsTagLine(PyStrip(content[2]))
    /\ Len(extracted[1].record.authors) = 2
    /\ extracted[1].record.authors[1] # extracted[1].record.authors[2]
    /\ Len(extracted[1].record.authors[1]) > Len(extracted[1].record.authors[2])

\* The runs of exactly four digits in v (no digit before, no digit after).
FourDigitRuns(v) ==
    {i \in 1..(Len(v) - 3) :
        /\ \A k \in 0..3 : IsDigit(v[i + k])
        /\ i = 1 \/ ~ IsDigit(v[i - 1])
        /\ i + 3 = Len(v) \/ ~ IsDigit(v[i + 4])}

\* The runs of exactly four digits in v that form a word of their own (no
\* letter, digit or underscore before or after).
FourDigitWords(v) ==
    {i \in FourDigitRuns(v) :
        /\ i = 1 \/ ~ IsWordChar(v[i - 1])
        /\ i + 3 = Len(v) \/ ~ IsWordChar(v[i + 4])}

\* The values accumulated for the year tag; empty when the field is unmapped.
YearValues ==
    IF Get(tag_mapping, "publication_year") = None THEN <<>>
    ELSE ElementsOf(content, Get(tag_mapping, "publication_year"), 1)

\* C16 as stated: the year is the integer value of the first 4-digit run of
\* the first accumulated value of the year tag; it is absent exactly when the
\* field is unmapped, the tag has no content, or that value has no such run.
C16_FirstFourDigitRun ==
    Returned =>
        LET year == extracted[1].record.year
        IN  IF YearValues = <<>> \/ FourDigitRuns(YearValues[1]) = {}
            THEN year = NoneInt
            ELSE year = IntAt(YearValues[1], SetMin(FourDigitRuns(YearValues[1])))

\* C16 amended: the year is the integer value of the first run of exactly
\* four digits that stands as a word of its own in the first accumulated
\* value of the year tag; it is absent exactly when the field is unmapped,
\* the tag has no content, or that value has no such run.
C16_FirstFourDigitWord ==
    Returned =>
        LET year == extracted[1].record.year
        IN  IF YearValues = <<>> \/ FourDigitWords(YearValues[1]) = {}
            THEN year = NoneInt
            ELSE year = IntAt(YearValues[1], SetMin(FourDigitWords(YearValues[1])))

\* The first value of the year tag has four digits glued to a letter and,
\* later, four digits on their own: the year is the later number.
C16_Witness ==
    /\ Returned
    /\ YearValues # <<>>
    /\ FourDigitWords(YearValues[1]) # {}
    /\ SetMin(FourDigitRuns(YearValues[1])) < SetMin(FourDigitWords(YearValues[1]))
    /\ extracted[1].record.year = 2021

\* The keys whose tag has no line in the chunk, or that hold null.
WithoutContent(key) ==
    \/ Get(tag_mapping, key) = None
    \/ ElementsOf(content, Get(tag_mapping, key), 1) = <<>>

\* C17: for a mapping whose six keys hold a tag code or null, parse_ris_record
\* raises nothing, and every field that is unmapped or whose tag has no line
\* in the chunk is absent (title, journal, year, abstract) or the empty
\* sequence (authors, keywords), whatever the other fields are.
C17_MissingFieldsDegrade ==
    extracted # <<>> =>
        /\ extracted[1].raised = NoneStr
        /\ LET r == extracted[1].record
           IN  /\ WithoutContent("title") => r.title = None
               /\ WithoutContent("journal_name") => r.journal = None
               /\ WithoutContent("publication_year") => r.year = NoneInt
               /\ WithoutContent("abstract") => r.abstract = None
               /\ WithoutContent("author") => r.authors = <<>>
               /\ WithoutContent("keywords") => r.keywords = <<>>

\* The title is the one unmapped field of a chunk that has a title line, an
\* author line and no keyword line: no title, no keywords, one author.
C17_Witness ==
    /\ Returned
    /\ Get(tag_mapping, "title") = None
    /\ Get(tag_mapping, "keywords") # None
    /\ ElementsOf(content, DefaultTag("title"), 1) # <<>>
    /\ extracted[1].record.title = None
    /\ extracted[1].record.keywords = <<>>
    /\ Len(extracted[1].record.authors) = 1

\* A mapping as the provider is meant to return it: a JSON object with the
\* six keys, each holding a tag code or null.
WellFormed(m) == Extractable(m) /\ DOMAIN m.fields = SemanticKeys

\* The mapping with null under every key it lacks.
Completed(m) ==
    [kind |-> "dict", fields |-> [k \in SemanticKeys |-> Get(m, k)]]

\* The ingestion failed before any record was there: an error, no report, no
\* record, no partition, the store as it was.
FailedBeforeRecords(s) ==
    /\ pc[s] = "error"
    /\ error[s] # NoneStr
    /\ result[s] = <<>>
    /\ records[s] = <<>>
    /\ parts[s] = NoParts
    /\ db = db0[s]

Approved(s) ==
    {k \in DOMAIN decisions[s] : decisions[s][k].decision = IsUnique}

\* C11: a run of process_partial_duplicate_decisions that stores something
\* inserts one article row for each entry whose decision is "unique - add"
\* and for no other entry, through store_record_in_database and without
\* classifying the records again; a run with nothing approved stores nothing.
C11_ApprovedStoredAsUnique ==
    [][\A s \in Sessions :
          /\ (decisions[s] # <<>> /\ decisions'[s] = <<>>) =>
                /\ Approved(s) # {}
                /\ db.articles \subseteq db'.articles
                /\ Cardinality(db'.articles \ db.articles) =
                      Cardinality(Approved(s))
                /\ \A k \in Approved(s) :
                      Cardinality({a \in db'.articles \ db.articles :
                                      SameText(a, decisions[s][k].record)}) =
                      Cardinality({j \in Approved(s) :
                                      SameText(decisions[s][j].record,
                                               decisions[s][k].record)})
                /\ db' = StoreItems(db,
                      [k \in 1..Cardinality(Approved(s)) |->
                          decisions[s][CHOOSE i \in Approved(s) :
                              Cardinality({j \in Approved(s) : j < i}) = k - 1]])
          /\ (pc[s] = "done" /\ decisions'[s] # <<>>) =>
                db'.articles = db.articles]_vars

\* The approved records have been stored: the store holds two articles with
\* the same normalized title, which no upload of one record after the other
\* would have stored.
C11_Witness ==
    \E s \in Sessions :
        /\ notice[s] = "Successfully added"
        /\ decisions[s] = <<>>
        /\ \E a1, a2 \in db.articles :
              /\ a1.id < a2.id
              /\ a1.title # a2.title
              /\ SqlNorm(a1.title) = SqlNorm(a2.title)

\* C12: no step of an upload or of a processing of decisions removes or
\* changes a committed article row: every row of the store is, with the same
\* id, title, abstract, year, source and journal, a row of the next store.
C12_ArticlesOnlyGrow ==
    [][\A a \in db.articles : a \in db'.articles]_vars

\* An upload has been processed on a store whose articles come from an
\* upload and from approved partial matches.
C12_Witness ==
    \E s \in Sessions :
        /\ pc[s] = "done"
        /\ db0[s].articles = db.articles
        /\ \E a1, a2, a3 \in db.articles :
              /\ a1.id < a2.id /\ a2.id < a3.id
              /\ SqlNorm(a1.title) = SqlNorm(a2.title)
              /\ SqlNorm(a2.title) = SqlNorm(a3.title)

(* --------------------------- end-of-record lines ------------------------- *)

\* An ER tag line: the code ER directly followed by the separator, or the
\* bare code.
ErTagLine(line) ==
    \/ line = <<"E", "R">>
    \/ Len(line) >= 5 /\ SubSeq(line, 1, 5) = <<"E", "R">> \o Separator

\* The chunks of a file when only ER tag lines end a record.
RECURSIVE ErChunks(_, _)
ErChunks(lines, pending) ==
    LET closed == IF pending = <<>> THEN <<>> ELSE <<pending>>
    IN  IF lines = <<>> THEN closed
        ELSE IF ErTagLine(PyStrip(Head(lines)))
        THEN closed \o ErChunks(Tail(lines), <<>>)
        ELSE IF PyStrip(Head(lines)) = <<>>
        THEN ErChunks(Tail(lines), pending)
        ELSE ErChunks(Tail(lines), Append(pending, PyStrip(Head(lines))))

\* C21: a line ends the current record exactly when, trimmed, it is ER
\* directly followed by the separator or is exactly ER; every other line stays
\* in the record: the records of a file are the extractions of the titled
\* chunks between ER tag lines.
C21_OnlyErTagLinesSplit ==
    \A s \in Parsed :
        Extractable(tag_mapping) =>
            LET chunks == ErChunks(content, <<>>)
                titled == {i \in DOMAIN chunks :
                   parse_ris_record(chunks[i], tag_mapping).record.title
                      \notin {None, <<>>}}
            IN  /\ Len(records[s]) = Cardinality(titled)
                /\ \A i \in titled :
                      parse_ris_record(chunks[i], tag_mapping).record
                         \in Range(records[s])


(* -------------------------- concurrent sessions -------------------------- *)

\* A further browser session opens the page: Streamlit runs main() for it
\* against the same database file.
OpenSession(s) ==
    /\ pc[s] = "off"
    /\ pc' = [pc EXCEPT ![s] = "idle"]
    /\ UNCHANGED <<db, tx, source_name, records, parts, stored_count, result>>
    /\ UNCHANGED <<error, db0, content, tag_mapping, decisions, calls>>
    /\ UNCHANGED <<extracted, screening, notice>>

\* Files of one record.
ConcurrentBatches == {<<r>> : r \in RecordPool}

ConcurrentUpload(s) == UploadFrom(s, ConcurrentBatches)

\* Every session processes one file; the steps of the sessions interleave.
ConcurrentNext ==
    \E s \in Sessions :
        \/ OpenSession(s)
        \/ ConcurrentUpload(s)
        \/ Classify(s)
        \/ StoreRecord(s)
        \/ StoreFail(s)
        \/ Commit(s)

ConcurrentSpec == Init /\ [][ConcurrentNext]_vars

\* The number of records the sessions of S that committed found Unique.
RECURSIVE UniqueCommitted(_)
UniqueCommitted(S) ==
    IF S = {} THEN 0
    ELSE LET s == CHOOSE t \in S : TRUE
         IN  (IF pc[s] = "done" THEN Len(parts[s].unique) ELSE 0)
                + UniqueCommitted(S \ {s})

\* C22: classification and the insert transaction are separate steps, and
\* nothing looks a record up again before it is inserted: every session that
\* commits has inserted each record it classified Unique, whatever the other
\* sessions committed in between, so the store holds one article per Unique
\* verdict of a committed session, two sessions can both insert a title.
C22_UniqueVerdictsAllInserted ==
    /\ Cardinality(db.articles) = UniqueCommitted(Sessions)
    /\ \A s \in Sessions :
          pc[s] = "done" =>
              /\ result[s][1].unique_stored = Len(parts[s].unique)
              /\ \A rec \in Range(parts[s].unique) :
                    \E a \in db.articles : SameText(a, rec)

\* Two sessions have each classified a record with the same title as Unique
\* and committed it: the store holds the title twice.
C22_Witness ==
    \E s, t \in Sessions :
        /\ s # t
        /\ pc[s] = "done" /\ pc[t] = "done"
        /\ Len(parts[s].unique) = 1 /\ Len(parts[t].unique) = 1
        /\ parts[s].unique[1].title = parts[t].unique[1].title
        /\ \E a1, a2 \in db.articles :
              /\ a1.id # a2.id
              /\ a1.title = a2.title
              /\ a1.title = parts[s].unique[1].title


(* ------------------------- tracked and other tags ------------------------ *)

\* The lines of a chunk that can reach a field: the lines of tracked tags and
\* the lines without tag behind them; tracking tells whether the last tag line
\* seen was a tracked one.
RECURSIVE TrackedLines(_, _, _)
TrackedLines(lines, tracked, tracking) ==
    IF lines = <<>> THEN <<>>
    ELSE LET line == PyStrip(Head(lines))
         IN  IF line = <<>> THEN TrackedLines(Tail(lines), tracked, tracking)
             ELSE IF IsTagLine(line)
             THEN IF TagOf(line) \in tracked
                  THEN <<line>> \o TrackedLines(Tail(lines), tracked, TRUE)
                  ELSE TrackedLines(Tail(lines), tracked, FALSE)
             ELSE IF tracking
             THEN <<line>> \o TrackedLines(Tail(lines), tracked, TRUE)
             ELSE TrackedLines(Tail(lines), tracked, FALSE)

\* C23: a tag line whose code is no value of the mapping, and every line
\* without tag between it and the next tracked tag line, reach no field: the
\* extracted record is the record extracted from the chunk without them.
C23_UntrackedLinesReachNoField ==
    Returned =>
        extracted[1].record =
           parse_ris_record(TrackedLines(content, Values(tag_mapping), FALSE),
                            tag_mapping).record

\* An author line, the line of a tag no key maps to, a line without tag: the
\* one author is the content of the author line alone.
C23_Witness ==
    /\ Returned
    /\ Len(content) = 3
    /\ IsTagLine(PyStrip(content[2]))
    /\ TagOf(PyStrip(content[2])) \notin Values(tag_mapping)
    /\ ~ IsTagLine(PyStrip(content[3]))
    /\ Len(TrackedLines(content, Values(tag_mapping), FALSE)) = 1
    /\ extracted[1].record.authors = <<ContentOf(PyStrip(content[1]))>>

\* The chunk with every repeated line of the tag rewritten as a continuation
\* line: a line of the tag that follows a line of the tag, with no other tag
\* line between, is replaced by its content.
RECURSIVE AsContinuations(_, _, _)
AsContinuations(lines, tag, open) ==
    IF lines = <<>> THEN <<>>
    ELSE LET line == PyStrip(Head(lines))
         IN  IF ~ IsTagLine(line)
             THEN <<line>> \o AsContinuations(Tail(lines), tag, open)
             ELSE IF TagOf(line) # tag
             THEN <<line>> \o AsContinuations(Tail(lines), tag, FALSE)
             ELSE IF open /\ ContentOf(line) # <<>>
             THEN <<ContentOf(line)>> \o AsContinuations(Tail(lines), tag, TRUE)
             ELSE <<line>> \o AsContinuations(Tail(lines), tag, TRUE)

\* The number of characters of the values together.
RECURSIVE TotalLength(_)
TotalLength(values) ==
    IF values = <<>> THEN 0 ELSE Len(values[1]) + TotalLength(Tail(values))

\* C24: the abstract is the elements of the abstract tag, in file order,
\* joined with one space each (absent when there is none), so the pieces of
\* an abstract give the same text as repeated lines of the tag and as
\* continuation lines of one line of the tag.
C24_AbstractJoinsAllValues ==
    (Returned /\ Truthy(Get(tag_mapping, "abstract"))) =>
        LET tag == Get(tag_mapping, "abstract")
            elements == ElementsOf(content, tag, 1)
            r == extracted[1].record
        IN  /\ elements = <<>> => r.abstract = None
            /\ elements # <<>> =>
                  /\ Len(r.abstract) + 1 =
                        Len(elements) + TotalLength(elements)
                  /\ \A i \in DOMAIN elements :
                        Contains(r.abstract, elements[i])
            /\ r.abstract =
                  parse_ris_record(AsContinuations(content, tag, FALSE),
                                   tag_mapping).record.abstract

\* An abstract of three pieces, the second a continuation line, the third a
\* second line of the abstract tag.
C24_Witness ==
    /\ Returned
    /\ Truthy(Get(tag_mapping, "abstract"))
    /\ Len(ElementsOf(content, Get(tag_mapping, "abstract"), 1)) = 2
    /\ Len(content) = 3
    /\ ~ IsTagLine(PyStrip(content[2]))
    /\ AsContinuations(content, Get(tag_mapping, "abstract"), FALSE)
          # [i \in DOMAIN content |-> PyStrip(content[i])]
    /\ extracted[1].record.abstract =
          <<"b", " ", "o", "f", " ", "2", "0", "2", "1", " ", "b">>

(* --------------------- lines that carry tag and separator ---------------- *)

\* A line that carries a tag code and the separator, content or not.
CarriesTag(line) == Len(line) >= 5 /\ SubSeq(line, 3, 5) = Separator

\* The text behind a line of a tag: the lines that carry no tag.
RECURSIVE UntaggedAfter(_, _)
UntaggedAfter(lines, i) ==
    IF i > Len(lines) THEN <<>>
    ELSE LET line == PyStrip(lines[i])
         IN  IF CarriesTag(line) THEN <<>>
             ELSE IF line = <<>> THEN UntaggedAfter(lines, i + 1)
             ELSE <<" ">> \o line \o UntaggedAfter(lines, i + 1)

\* One element per line carrying the tag, from line i on.
RECURSIVE OwnElements(_, _, _)
OwnElements(lines, tag, i) ==
    IF i > Len(lines) THEN <<>>
    ELSE LET line == PyStrip(lines[i])
         IN  IF CarriesTag(line) /\ TagOf(line) = tag
             THEN <<(IF Len(line) >= 7 THEN ContentOf(line) ELSE <<>>)
                       \o UntaggedAfter(lines, i + 1)>>
                     \o OwnElements(lines, tag, i + 1)
             ELSE OwnElements(lines, tag, i + 1)

\* C29: the value of a field holds only the content of the lines carrying
\* the field's tag and of the lines without tag behind them; a line carrying
\* another tag code and the separator, be its content empty, is never appended
\* to the value: authors, keywords and title are built from their own lines.
C29_OtherTagLinesNeverAppended ==
    Returned =>
        LET r == extracted[1].record
            m == tag_mapping
        IN  /\ Get(m, "author") # None =>
                  r.authors = Stripped(OwnElements(content, Get(m, "author"), 1))
            /\ Get(m, "keywords") # None =>
                  r.keywords =
                     Stripped(OwnElements(content, Get(m, "keywords"), 1))
            /\ (Get(m, "title") # None
                  /\ OwnElements(content, Get(m, "title"), 1) # <<>>) =>
                  r.title = OwnElements(content, Get(m, "title"), 1)[1]


(* ---------------------- records seen before, again ----------------------- *)

\* The record has no abstract.
NoAbstract(rec) == rec.abstract \in {None, <<>>}

\* C25: an incoming record without abstract is never classified
\* FullDuplicate, and when the store holds a row with the identical title
\* and no abstract either, its verdict is PartialDuplicate.
C25_NoAbstractAtMostPartial ==
    \A s \in Classified :
        \A rec \in Range(records[s]) :
            NoAbstract(rec) =>
                /\ ~ InFull(s, rec)
                /\ ( /\ pc[s] \in {"storing", "done"}
                     /\ \E a \in db0[s].articles :
                           a.title = rec.title /\ NoAbstract(a) ) =>
                      InPartial(s, rec)

\* C26: ingesting again what was ingested stores nothing: when the store
\* already holds, for every record of the batch, a row with the record's
\* title and abstract, every record is classified FullDuplicate or
\* PartialDuplicate, zero records are stored and the article count is the
\* count before the run.
C26_ReingestStoresNothing ==
    \A s \in Sessions :
        ( /\ pc[s] = "done"
          /\ \A rec \in Range(records[s]) :
                \E a \in db0[s].articles : SameText(a, rec) ) =>
            /\ \A rec \in Range(records[s]) :
                  InFull(s, rec) \/ InPartial(s, rec)
            /\ result[s][1].unique_stored = 0
            /\ Cardinality(db.articles) = Cardinality(db0[s].articles)


(* ----------------------- decisions across the lists ---------------------- *)

\* The positions of the list on the page whose decision is "unique - add".
ApprovedOnPage(s) == Approved(s) \cap DOMAIN PartialInfo(s)

\* C27: every record a run of process_partial_duplicate_decisions stores is
\* a record of the list the page was last rendered with: the approved
\* entries all lie within that list, and each new article row is one of its
\* approved records.
C27_StoredFromCurrentList ==
    [][\A s \in Sessions :
          (decisions[s] # <<>> /\ decisions'[s] = <<>>) =>
              /\ Approved(s) \subseteq DOMAIN PartialInfo(s)
              /\ Cardinality(db'.articles \ db.articles) =
                    Cardinality(ApprovedOnPage(s))
              /\ \A a \in db'.articles \ db.articles :
                    \E k \in ApprovedOnPage(s) :
                        SameText(a, PartialInfo(s)[k].new_record)]_vars

\* C28: an approval leads to at most one insert: a run that changes the
\* articles inserts one row per approved entry and leaves no decision
\* behind for a later run, and a run that reports an error leaves the store
\* as it was.
C28_ApprovedInsertedAtMostOnce ==
    [][\A s \in Sessions :
          pc[s] = "done" =>
              /\ db'.articles # db.articles =>
                    /\ decisions'[s] = <<>>
                    /\ notice'[s] = "Successfully added"
                    /\ Cardinality(db'.articles) =
                          Cardinality(db.articles) + Cardinality(Approved(s))
              /\ notice'[s] = "Error adding records" =>
                    /\ db' = db
                    /\ decisions'[s] = decisions[s]]_vars

\* A run with two approved records has failed: none of them is in the store
\* and both are still pending.
C28_Witness ==
    \E s \in Sessions :
        /\ notice[s] = "Error adding records"
        /\ Cardinality(Approved(s)) = 2
        /\ Cardinality(db.articles) = 1
        /\ pc[s] = "done"


(* ------------------------------ screening -------------------------------- *)

\* DatabaseManager.get_articles(limit=7): SELECT id, title, abstract FROM
\* articles LIMIT ?
ScreenLimit == 7

Loaded(d) ==
    {a.id : a \in {a \in d.articles :
                     Cardinality({b \in d.articles : b.id < a.id}) < ScreenLimit}}

\* The ids of a set in ascending order.
RECURSIVE Ascending(_)
Ascending(ids) ==
    IF ids = {} THEN <<>>
    ELSE <<SetMin(ids)>> \o Ascending(ids \ {SetMin(ids)})

\* What the model returns for an article: a decision, some other word, or
\* nothing (batch_results is None, or has no key for the article).
AiAnswers == {NoneStr, "INCLUDE", "EXCLUDE", "MAYBE"}

\* results.append({'id': .., 'ai_decision': ..}) for the articles that have
\* an answer, in the order of the loaded articles.
Results(ids, answer) ==
    LET Answered(id) == answer[id] # NoneStr
        answered == SelectSeq(Ascending(ids), Answered)
    IN  [k \in DOMAIN answered |->
            [id |-> answered[k], ai_decision |-> answer[answered[k]]]]

ResultIds(sc) == {sc.results[k].id : k \in DOMAIN sc.results}

\* The value a select box shows for a recorded decision:
\* index=0 if current_decision == 'INCLUDE' else 1.
Selected(decision) == IF decision = "INCLUDE" THEN "INCLUDE" ELSE "EXCLUDE"

\* The loop over screening_results: final_decisions[article_id] is set to
\* the value of the article's select box.
WriteFinal(sc, choice) ==
    [id \in DOMAIN sc.final \cup ResultIds(sc) |->
        IF id \in ResultIds(sc) THEN choice[id] ELSE sc.final[id]]

\* The select boxes as they stand when the user touches none of them.
Untouched(sc) ==
    [id \in ResultIds(sc) |->
        Selected(IF id \in DOMAIN sc.final THEN sc.final[id]
                 ELSE (CHOOSE k \in DOMAIN sc.results :
                          sc.results[k].id = id).ai_decision)]

\* to_remove with every article that has a decision.
ToRemoveAllDecided(final) == DOMAIN final

\* to_remove = [aid for aid, decision in final_decisions.items()
\*              if decision == 'EXCLUDE']
ToRemove(final) == {id \in DOMAIN final : final[id] = "EXCLUDE"}

\* str(n)
DecimalDigit(n) ==
    <<"0", "1", "2", "3", "4", "5", "6", "7", "8", "9">>[n + 1]

RECURSIVE Decimal(_)
Decimal(n) ==
    IF n < 10 THEN <<DecimalDigit(n)>>
    ELSE Decimal(n \div 10) \o <<DecimalDigit(n % 10)>>

\* f"CONFIRM {len(to_remove)}"
ConfirmText(n) == <<"C", "O", "N", "F", "I", "R", "M", " ">> \o Decimal(n)

\* What the user may type into the confirmation field.
TypedTexts ==
    {ConfirmText(n) : n \in 0..MaxArticles}
       \cup { <<>>,
              <<"c", "o", "n", "f", "i", "r", "m", " ", "1">>,
              <<"C", "O", "N", "F", "I", "R", "M", " ", "0", "1">>,
              <<"C", "O", "N", "F", "I", "R", "M">> }

\* DatabaseManager.remove_articles: the link rows of the articles, then the
\* articles; removed_count is the number of article rows deleted.
remove_articles(d, article_ids) ==
    [db |-> [d EXCEPT
               !.article_author = {l \in @ : l[1] \notin article_ids},
               !.article_keyword = {l \in @ : l[1] \notin article_ids},
               !.articles = {a \in @ : a.id \notin article_ids}],
     removed_count |->
        Cardinality({a \in d.articles : a.id \in article_ids})]

\* for key in [..]: del st.session_state[key]; st.rerun()
ResetScreening(button) == [ScreeningDefaults EXCEPT !.clicked = button]

\* "Start AI Screening" pressed with criteria entered: the loaded articles
\* are sent to the model and the answers become the results and the first
\* final decisions.
StartScreening(s) ==
    /\ pc[s] # "off"
    /\ ~ screening[s].completed
    /\ Loaded(db) # {}
    /\ \E answer \in [Loaded(db) -> AiAnswers] :
          LET results == Results(Loaded(db), answer)
              old == screening[s].final
              new == {results[k].id : k \in DOMAIN results}
          IN  screening' = [screening EXCEPT ![s] =
                 [results |-> results, completed |-> TRUE,
                  final |-> [id \in DOMAIN old \cup new |->
                               IF id \in new THEN answer[id] ELSE old[id]],
                  confirm |-> <<>>, clicked |-> "start"]]
    /\ UNCHANGED <<db, tx, pc, source_name, records, parts, stored_count>>
    /\ UNCHANGED <<result, error, db0, content, tag_mapping, decisions>>
    /\ UNCHANGED <<calls, extracted, notice>>

\* The results are on the page and the user sets the select boxes.
Decide(s) ==
    /\ screening[s].completed
    /\ \E choice \in [ResultIds(screening[s]) -> {"INCLUDE", "EXCLUDE"}] :
          screening' = [screening EXCEPT ![s] =
             [@ EXCEPT !.final = WriteFinal(screening[s], choice),
                       !.confirm =
                          IF ToRemove(WriteFinal(screening[s], choice)) = {}
                          THEN <<>> ELSE @,
                       !.clicked = NoneStr]]
    /\ UNCHANGED <<db, tx, pc, source_name, records, parts, stored_count>>
    /\ UNCHANGED <<result, error, db0, content, tag_mapping, decisions>>
    /\ UNCHANGED <<calls, extracted, notice>>

\* Some article is marked EXCLUDE and the user types into the confirmation
\* field.
TypeConfirm(s) ==
    /\ screening[s].completed
    /\ LET final == WriteFinal(screening[s], Untouched(screening[s]))
       IN  /\ ToRemove(final) # {}
           /\ \E text \in TypedTexts :
                 screening' = [screening EXCEPT ![s] =
                    [@ EXCEPT !.final = final, !.confirm = text,
                              !.clicked = NoneStr]]
    /\ UNCHANGED <<db, tx, pc, source_name, records, parts, stored_count>>
    /\ UNCHANGED <<result, error, db0, content, tag_mapping, decisions>>
    /\ UNCHANGED <<calls, extracted, notice>>

\* The confirmation field holds 'CONFIRM n' and "REMOVE ARTICLES FROM
\* DATABASE" is pressed: the articles marked EXCLUDE are removed, and when
\* rows were removed the screening keys are deleted.
PressRemove(s) ==
    /\ screening[s].completed
    /\ \A t \in Sessions : tx[t] = <<>>
    /\ LET final == WriteFinal(screening[s], Untouched(screening[s]))
           to_remove == ToRemove(final)
           removal == remove_articles(db, to_remove)
       IN  /\ to_remove # {}
           /\ screening[s].confirm = ConfirmText(Cardinality(to_remove))
           /\ db' = removal.db
           /\ screening' = [screening EXCEPT ![s] =
                 IF removal.removed_count > 0 THEN ResetScreening("remove")
                 ELSE [@ EXCEPT !.final = final, !.clicked = "remove"]]
    /\ notice' = [notice EXCEPT ![s] = "Successfully removed"]
    /\ UNCHANGED <<tx, pc, source_name, records, parts, stored_count, result>>
    /\ UNCHANGED <<error, db0, content, tag_mapping, decisions, calls>>
    /\ UNCHANGED extracted

\* The button is pressed and a DELETE raises: the connection rolls back,
\* remove_articles reports the error and returns 0, the keys stay.
PressRemoveFail(s) ==
    /\ screening[s].completed
    /\ LET final == WriteFinal(screening[s], Untouched(screening[s]))
           to_remove == ToRemove(final)
       IN  /\ to_remove # {}
           /\ screening[s].confirm = ConfirmText(Cardinality(to_remove))
           /\ db' = Rollback(db, remove_articles(db, to_remove).db)
           /\ screening' = [screening EXCEPT ![s] =
                 [@ EXCEPT !.final = final, !.clicked = "remove"]]
    /\ notice' = [notice EXCEPT ![s] = "Error removing articles"]
    /\ UNCHANGED <<tx, pc, source_name, records, parts, stored_count, result>>
    /\ UNCHANGED <<error, db0, content, tag_mapping, decisions, calls>>
    /\ UNCHANGED extracted

\* No article is marked EXCLUDE and "Complete Screening Session" is pressed.
CompleteSession(s) ==
    /\ screening[s].completed
    /\ ToRemove(WriteFinal(screening[s], Untouched(screening[s]))) = {}
    /\ screening' = [screening EXCEPT ![s] = ResetScreening("complete")]
    /\ UNCHANGED <<db, tx, pc, source_name, records, parts, stored_count>>
    /\ UNCHANGED <<result, error, db0, content, tag_mapping, decisions>>
    /\ UNCHANGED <<calls, extracted, notice>>

\* "New Screening Session" pressed.
NewSession(s) ==
    /\ pc[s] # "off"
    /\ screening[s] # ResetScreening("new")
    /\ screening' = [screening EXCEPT ![s] = ResetScreening("new")]
    /\ UNCHANGED <<db, tx, pc, source_name, records, parts, stored_count>>
    /\ UNCHANGED <<result, error, db0, content, tag_mapping, decisions>>
    /\ UNCHANGED <<calls, extracted, notice>>

\* Records with authors and keywords.
ScreenPool ==
    { Rec(<<"a">>, <<"a", "b">>, "J", 2020, <<"Smith", "Doe">>, <<"ai">>),
      Rec(<<"b">>, <<"A", "B">>, "J", NoneInt, <<"Smith">>, <<>>) }

\* The stores the screening starts from: what ingesting a file leaves.
ScreenStores ==
    {StoreAll(EmptyDb, batch, "Scopus") :
        batch \in SeqsUpTo(ScreenPool, MaxBatch - 1)}

ScreenInit ==
    /\ db \in ScreenStores
    /\ tx = [s \in Sessions |-> <<>>]
    /\ pc = [s \in Sessions |-> IF s = 1 THEN "idle" ELSE "off"]
    /\ source_name = [s \in Sessions |-> NoneStr]
    /\ records = [s \in Sessions |-> <<>>]
    /\ parts = [s \in Sessions |-> NoParts]
    /\ stored_count = [s \in Sessions |-> 0]
    /\ result = [s \in Sessions |-> <<>>]
    /\ error = [s \in Sessions |-> NoneStr]
    /\ db0 = [s \in Sessions |-> EmptyDb]
    /\ decisions = [s \in Sessions |-> <<>>]
    /\ calls = <<>>
    /\ extracted = <<>>
    /\ notice = [s \in Sessions |-> NoneStr]
    /\ screening = [s \in Sessions |-> ScreeningDefaults]
    /\ content = <<>>
    /\ tag_mapping = NoMapping

ScreenNext ==
    \E s \in Sessions :
        \/ StartScreening(s)
        \/ Decide(s)
        \/ TypeConfirm(s)
        \/ PressRemove(s)
        \/ PressRemoveFail(s)
        \/ CompleteSession(s)
        \/ NewSession(s)

ScreenSpec == ScreenInit /\ [][ScreenNext]_vars

\* The articles session s has marked EXCLUDE.
Excluded(s) ==
    {id \in DOMAIN screening[s].final : screening[s].final[id] = "EXCLUDE"}

\* C30: an article leaves the store only in a run started by the remove
\* button, with the article's final decision EXCLUDE and the confirmation
\* field holding 'CONFIRM n' for the n articles marked EXCLUDE; its author
\* and keyword links leave with it; an article marked INCLUDE, or without a
\* result of the model, stays.
C30_OnlyConfirmedExcludedRemoved ==
    [][\A a \in db.articles :
          /\ a \notin db'.articles =>
                /\ \E s \in Sessions :
                      /\ screening[s].completed
                      /\ a.id \in Excluded(s)
                      /\ screening[s].confirm =
                            ConfirmText(Cardinality(Excluded(s)))
                      /\ screening'[s].clicked = "remove"
                /\ \A l \in db'.article_author \cup db'.article_keyword :
                      l[1] # a.id
                /\ \A b \in db'.articles : b.id # a.id
          /\ \A s \in Sessions :
                (pc[s] # "off" /\ a.id \notin Excluded(s)) =>
                    a \in db'.articles]_vars

\* Articles have been removed and one was kept: the ids have a gap, an
\* author is left without any article, and every link belongs to an article
\* of the store.
C30_Witness ==
    \E s \in Sessions :
        /\ screening[s].clicked = "remove"
        /\ ~ screening[s].completed
        /\ \E a \in db.articles : a.id > Cardinality(db.articles)
        /\ \E au \in db.authors : \A l \in db.article_author : l[2] # au.id
        /\ \A l \in db.article_author \cup db.article_keyword :
              \E a \in db.articles : a.id = l[1]


====
